---- MODULE Spec2Model ----
(***************************************************************************)
(* A model of the BPF bytecode optimizer: instruction decoding, the        *)
(* control-flow graph, the data-flow dependency engine, the four rewrite   *)
(* passes of a section, the candidate-driven superword merger and the      *)
(* mask-pattern test.  Instruction indices are the program's own 0-based   *)
(* indices; sequences are 1-based, so instruction i is Instructions[i+1].  *)
(***************************************************************************)
EXTENDS Integers, Sequences, FiniteSets, TLC

\* Longest section built from the free instruction palette.
MaxLen == 3

\* ------------------------------------------------------------------------
\* Opcode constants (pkg/bpf constants)
\* ------------------------------------------------------------------------
BPF_LD == 0
BPF_LDX == 1
BPF_ST == 2
BPF_STX == 3
BPF_ALU == 4
BPF_JMP == 5
BPF_JMP32 == 6
BPF_ALU64 == 7
BPF_X == 8
ALU_MOV == 176
ALU_END == 208
JMP_CALL == 128
JMP_EXIT == 144
BPF_IMM == 0
BPF_ABS == 32
BPF_IND == 64
BPF_MEM == 96
BPF_MEMSX == 128
BPF_ATOMIC == 192
SIZE_W == 0
SIZE_H == 8
SIZE_B == 16
SIZE_DW == 24
BPF_LDDW == 24

\* ------------------------------------------------------------------------
\* Sequence and integer helpers
\* ------------------------------------------------------------------------
Range(s) == {s[k] : k \in DOMAIN s}

Contains(s, x) == \E k \in DOMAIN s : s[k] = x

RECURSIVE Pow2(_)
Pow2(n) == IF n = 0 THEN 1 ELSE 2 * Pow2(n - 1)

\* Two's-complement wrap of v to a signed integer of the given width.
ToSignedBits(v, bits) ==
    LET m == v % Pow2(bits)
    IN  IF m >= Pow2(bits - 1) THEN m - Pow2(bits) ELSE m

\* The ascending sequence of the elements of a finite set of integers.
RECURSIVE SortedSeq(_)
SortedSeq(S) ==
    IF S = {} THEN <<>>
    ELSE LET m == CHOOSE x \in S : \A y \in S : x <= y
         IN  <<m>> \o SortedSeq(S \ {m})

\* A hexadecimal string is modelled as its sequence of digits 0..15.
\* HexValue reads the digits h[from+1 .. to] (Go's h[from:to]) as a number.
RECURSIVE HexValue(_, _, _)
HexValue(h, from, to) ==
    IF to <= from THEN 0
    ELSE 16 * HexValue(h, from, to - 1) + h[to]

Slice(h, from, to) == SubSeq(h, from + 1, to)

\* The concatenation of a sequence of sequences.
RECURSIVE Flatten(_)
Flatten(ss) == IF ss = <<>> THEN <<>> ELSE Head(ss) \o Flatten(Tail(ss))

\* The two hex digits of a byte (fmt "%02x").
Hex2(b) == <<b \div 16, b % 16>>

\* The sixteen hex digits of eight bytes.
RECURSIVE HexOfBytes(_)
HexOfBytes(bs) ==
    IF bs = <<>> THEN <<>> ELSE Hex2(Head(bs)) \o HexOfBytes(Tail(bs))

\* ------------------------------------------------------------------------
\* pkg/bpf: Instruction
\* ------------------------------------------------------------------------
NOP == HexOfBytes(<<5, 0, 0, 0, 0, 0, 0, 0>>)

\* The top byte of a two's-complement value, as a signed number.
SignedByte(b) == IF b >= 128 THEN b - 256 ELSE b

\* NewInstruction: the offset is int16(b3) | int16(b2)<<8 where b2 = hex[4:6]
\* and b3 = hex[6:8]; the immediate is b7 | b6<<8 | b5<<16 | b4<<24 with
\* b4 = hex[8:10] ... b7 = hex[14:16]; the byte shifted to the top carries the
\* sign of the int16 / int32 result.
NewInstruction(hexStr) ==
    LET regs == HexValue(hexStr, 2, 4)
        b2 == HexValue(hexStr, 4, 6)
        b3 == HexValue(hexStr, 6, 8)
        b4 == HexValue(hexStr, 8, 10)
        b5 == HexValue(hexStr, 10, 12)
        b6 == HexValue(hexStr, 12, 14)
        b7 == HexValue(hexStr, 14, 16)
    IN  [Raw |-> hexStr,
         Opcode |-> HexValue(hexStr, 0, 2),
         DstReg |-> regs % 16,
         SrcReg |-> regs \div 16,
         Offset |-> b3 + 256 * SignedByte(b2),
         Imm |-> b7 + 256 * b6 + 65536 * b5 + 16777216 * SignedByte(b4)]

\* An emitter that encodes the decoded fields again, the offset and the
\* immediate least significant byte first, instead of returning the raw string.
ToHexFromFields(inst) ==
    LET off == inst.Offset % 65536
        top == (inst.Imm \div 16777216) % 256
        low == inst.Imm % 16777216
    IN  Hex2(inst.Opcode) \o Hex2(16 * inst.SrcReg + inst.DstReg)
            \o Hex2(off % 256) \o Hex2(off \div 256)
            \o Hex2(low % 256) \o Hex2((low \div 256) % 256)
            \o Hex2(low \div 65536) \o Hex2(top)

ToHex(inst) == inst.Raw

GetInstructionClass(inst) == inst.Opcode % 8

SetAsNOP(inst) ==
    [Raw |-> NOP, Opcode |-> 5, DstReg |-> 0, SrcReg |-> 0, Offset |-> 0, Imm |-> 0]

\* GetRawImm: the immediate field's bytes in reversed order, as hex digits.
GetRawImm(inst) ==
    Slice(inst.Raw, 14, 16) \o Slice(inst.Raw, 12, 14)
        \o Slice(inst.Raw, 10, 12) \o Slice(inst.Raw, 8, 10)

\* ------------------------------------------------------------------------
\* Instruction analysis (register / stack effect of one instruction)
\* ------------------------------------------------------------------------
EmptyAnalysis ==
    [UpdatedReg |-> -1, UpdatedStack |-> <<>>, UsedReg |-> <<>>,
     UsedStack |-> <<>>, Offset |-> 0, IsCall |-> FALSE, IsExit |-> FALSE]

ALU(a, opcode, dst, src) ==
    LET msb == (opcode \div 16) * 16
        isX == (opcode \div 8) % 2 = 1
    IN  IF msb = ALU_END
        THEN [a EXCEPT !.UpdatedReg = dst, !.UsedReg = <<dst>>]
        ELSE IF msb = ALU_MOV
        THEN [a EXCEPT !.UpdatedReg = dst,
                       !.UsedReg = IF isX THEN <<src>> ELSE a.UsedReg]
        ELSE [a EXCEPT !.UpdatedReg = dst,
                       !.UsedReg = IF isX THEN <<dst, src>> ELSE <<dst>>]

JMP(a, opcode, dst, src, off, imm) ==
    LET msb == (opcode \div 16) * 16
    IN  IF opcode = 5 THEN [a EXCEPT !.UsedReg = <<>>, !.Offset = off]
        ELSE IF msb = JMP_CALL
        THEN IF imm = 12
             THEN [a EXCEPT !.UsedReg = <<1, 2, 3>>, !.UsedStack = <<0, 0>>]
             ELSE IF imm \in {1, 3, 23, 44}
             THEN [a EXCEPT !.UsedReg = <<1, 2>>, !.UpdatedReg = 0]
             ELSE IF imm \in {2, 69}
             THEN [a EXCEPT !.UsedReg = <<1, 2, 3, 4>>, !.UpdatedReg = 0]
             ELSE IF imm \in {4, 51}
             THEN [a EXCEPT !.UsedReg = <<1, 2, 3>>, !.UpdatedReg = 0]
             ELSE IF imm \in {5, 7, 8}
             THEN [a EXCEPT !.UpdatedReg = 0]
             ELSE IF imm \in {9, 10, 11}
             THEN [a EXCEPT !.UsedReg = <<1, 2, 3, 4, 5>>, !.UpdatedReg = 0]
             ELSE [a EXCEPT !.UsedReg = <<1, 2, 3, 4, 5>>, !.UpdatedReg = 0,
                            !.IsCall = TRUE]
        ELSE IF msb = JMP_EXIT
        THEN [a EXCEPT !.UsedReg = <<0>>, !.IsExit = TRUE]
        ELSE [a EXCEPT !.UsedReg = <<dst, src>>, !.Offset = off]

\* 2^(sizeField/8 + 3), sizeField = opcode & 0x18.
calculateSizeBits(opcode) == Pow2(((opcode \div 8) % 4) + 3)

\* A store analysis that also counts the base register of the address as used.
STXUsingDst(a, opcode, dst, src, off) ==
    LET msb == (opcode \div 32) * 32
    IN  IF msb \in {BPF_MEM, BPF_MEMSX, BPF_ATOMIC}
        THEN IF dst = 10
             THEN [a EXCEPT !.UpdatedStack = <<off, calculateSizeBits(opcode)>>,
                            !.UsedReg = <<src>>]
             ELSE [a EXCEPT !.UsedReg = <<dst, src>>]
        ELSE a

STX(a, opcode, dst, src, off) ==
    LET msb == (opcode \div 32) * 32
    IN  IF msb \in {BPF_MEM, BPF_MEMSX, BPF_ATOMIC}
        THEN IF dst = 10
             THEN [a EXCEPT !.UpdatedStack = <<off, calculateSizeBits(opcode)>>,
                            !.UsedReg = <<src>>]
             ELSE [a EXCEPT !.UsedReg = <<src>>]
        ELSE a

ST(a, opcode, dst, src, off) ==
    LET msb == (opcode \div 32) * 32
    IN  IF msb \in {BPF_MEM, BPF_MEMSX, BPF_ATOMIC} /\ dst = 10
        THEN [a EXCEPT !.UpdatedStack = <<off, calculateSizeBits(opcode)>>]
        ELSE a

LDX(a, opcode, dst, src, off) ==
    LET msb == (opcode \div 32) * 32
    IN  IF msb \in {BPF_MEM, BPF_MEMSX}
        THEN IF src = 10
             THEN [a EXCEPT !.UpdatedReg = dst,
                            !.UsedStack = <<off, calculateSizeBits(opcode)>>]
             ELSE [a EXCEPT !.UpdatedReg = dst, !.UsedReg = <<src>>]
        ELSE a

LD(a, opcode, dst, src) ==
    LET msb == (opcode \div 32) * 32
    IN  IF msb = BPF_IMM THEN [a EXCEPT !.UpdatedReg = dst]
        ELSE IF msb \in {BPF_ABS, BPF_IND}
        THEN [a EXCEPT !.UpdatedReg = dst, !.UsedReg = <<src>>]
        ELSE a

analyzeInstruction(inst) ==
    LET lsb == inst.Opcode % 8
        a == EmptyAnalysis
    IN  IF lsb \in {BPF_ALU64, BPF_ALU}
        THEN ALU(a, inst.Opcode, inst.DstReg, inst.SrcReg)
        ELSE IF lsb \in {BPF_JMP32, BPF_JMP}
        THEN JMP(a, inst.Opcode, inst.DstReg, inst.SrcReg, inst.Offset, inst.Imm)
        ELSE IF lsb = BPF_STX
        THEN STX(a, inst.Opcode, inst.DstReg, inst.SrcReg, inst.Offset)
        ELSE IF lsb = BPF_ST
        THEN ST(a, inst.Opcode, inst.DstReg, inst.SrcReg, inst.Offset)
        ELSE IF lsb = BPF_LDX
        THEN LDX(a, inst.Opcode, inst.DstReg, inst.SrcReg, inst.Offset)
        ELSE LD(a, inst.Opcode, inst.DstReg, inst.SrcReg)

\* ------------------------------------------------------------------------
\* Go maps and slices
\* ------------------------------------------------------------------------
EmptyMap == [x \in {} |-> <<>>]

Put(m, k, v) == [x \in DOMAIN m \cup {k} |-> IF x = k THEN v ELSE m[x]]

Delete(m, k) == [x \in DOMAIN m \ {k} |-> m[x]]

\* m[k] of a Go map of slices: the nil slice when the key is absent.
Get(m, k) == IF k \in DOMAIN m THEN m[k] ELSE <<>>

\* sort.Ints: ascending, duplicates kept.
RECURSIVE InsertSorted(_, _)
InsertSorted(s, x) ==
    IF s = <<>> THEN <<x>>
    ELSE IF x <= Head(s) THEN <<x>> \o s
    ELSE <<Head(s)>> \o InsertSorted(Tail(s), x)

RECURSIVE SortInts(_)
SortInts(s) ==
    IF s = <<>> THEN <<>> ELSE InsertSorted(SortInts(Tail(s)), Head(s))

\* All orders in which a Go map's keys can be visited.
MapOrders(S) ==
    {p \in [1..Cardinality(S) -> S] : \A a, b \in DOMAIN p : a # b => p[a] # p[b]}

\* ------------------------------------------------------------------------
\* Control-flow graph construction
\* ------------------------------------------------------------------------
IsJumpClass(inst) == inst.Opcode % 8 \in {BPF_JMP, BPF_JMP32}

\* buildInstructionNode with a negative target clamped to instruction 0
\* instead of dropped.
RECURSIVE buildInstructionNodeClamped(_, _, _)
buildInstructionNodeClamped(insts, i, st) ==
    IF i >= Len(insts) THEN st.Nodes
    ELSE LET inst == insts[i + 1]
             msb == (inst.Opcode \div 16) * 16
             jumpTarget == i + inst.Offset + 1
             cur == st.currentNode
         IN  IF ~IsJumpClass(inst) \/ msb = JMP_CALL
             THEN buildInstructionNodeClamped(insts, i + 1, st)
             ELSE IF msb = JMP_EXIT
             THEN buildInstructionNodeClamped(insts, i + 1,
                      [Nodes |-> Put(st.Nodes, cur, <<>>), currentNode |-> i + 1])
             ELSE IF inst.Opcode = 5
             THEN buildInstructionNodeClamped(insts, i + 1,
                      [Nodes |-> Put(st.Nodes, cur,
                                     <<IF jumpTarget >= 0 THEN jumpTarget ELSE 0>>),
                       currentNode |-> i + 1])
             ELSE buildInstructionNodeClamped(insts, i + 1,
                      [Nodes |-> Put(Put(st.Nodes, cur, <<i>>), i,
                                     <<IF jumpTarget >= 0 THEN jumpTarget ELSE 0,
                                       i + 1>>),
                       currentNode |-> i + 1])

\* buildInstructionNode: st = [Nodes, currentNode], folded over i = 0..N-1.
RECURSIVE buildInstructionNode(_, _, _)
buildInstructionNode(insts, i, st) ==
    IF i >= Len(insts) THEN st.Nodes
    ELSE LET inst == insts[i + 1]
             msb == (inst.Opcode \div 16) * 16
             jumpTarget == i + inst.Offset + 1
             cur == st.currentNode
         IN  IF ~IsJumpClass(inst) \/ msb = JMP_CALL
             THEN buildInstructionNode(insts, i + 1, st)
             ELSE IF msb = JMP_EXIT
             THEN buildInstructionNode(insts, i + 1,
                      [Nodes |-> Put(st.Nodes, cur, <<>>), currentNode |-> i + 1])
             ELSE IF inst.Opcode = 5
             THEN buildInstructionNode(insts, i + 1,
                      [Nodes |-> Put(st.Nodes, cur,
                                     IF jumpTarget >= 0 THEN <<jumpTarget>> ELSE <<>>),
                       currentNode |-> i + 1])
             ELSE buildInstructionNode(insts, i + 1,
                      [Nodes |-> Put(Put(st.Nodes, cur, <<i>>), i,
                                     (IF jumpTarget >= 0 THEN <<jumpTarget>> ELSE <<>>)
                                         \o <<i + 1>>),
                       currentNode |-> i + 1])

\* buildInstructionNodeReverse: only the key set of the result is read later
\* (buildInstructionNodeLength replaces every list by an empty one).
buildInstructionNodeReverse(nodes) ==
    (DOMAIN nodes \ {0}) \cup UNION {Range(nodes[k]) : k \in DOMAIN nodes}

\* buildInstructionNodeLength: allNodes is sorted with its duplicates; a later
\* assignment to NodesLen[k] overwrites an earlier one.
buildInstructionNodeLength(n, revKeys) ==
    LET allNodes == SortInts(SortedSeq(revKeys) \o <<0, n>>)
        last == Len(allNodes)
        keys == {allNodes[j] : j \in 1..(last - 1)}
        lastAt(k) == CHOOSE j \in 1..(last - 1) :
                        /\ allNodes[j] = k
                        /\ \A j2 \in 1..(last - 1) : allNodes[j2] = k => j2 <= j
    IN  [NodesLen |-> [k \in keys |-> allNodes[lastAt(k) + 1] - allNodes[lastAt(k)]],
         NodesRev |-> [k \in keys \ {n} |-> <<>>]]

AppendIfKey(rev, k, v) ==
    IF k \in DOMAIN rev THEN [rev EXCEPT ![k] = Append(@, v)] ELSE rev

\* rebuildInstructionNodeRev, one instruction of one block.
rebuildStep(insts, nodesLen, rev, node, i) ==
    LET n == Len(insts)
        instIdx == node + i
        nodeLen == nodesLen[node]
        inst == insts[instIdx + 1]
        msb == (inst.Opcode \div 16) * 16
        jumpTarget == instIdx + inst.Offset + 1
        fallThrough == instIdx + 1
        seqFlow == IF i = nodeLen - 1 /\ node + nodeLen < n
                   THEN AppendIfKey(rev, node + nodeLen, node)
                   ELSE rev
    IN  IF IsJumpClass(inst)
        THEN IF msb = JMP_CALL THEN seqFlow
             ELSE IF msb = JMP_EXIT THEN rev
             ELSE IF inst.Opcode = 5
             THEN IF jumpTarget >= 0 /\ jumpTarget < n
                  THEN AppendIfKey(rev, jumpTarget, node)
                  ELSE rev
             ELSE LET r1 == IF jumpTarget >= 0 /\ jumpTarget < n
                            THEN AppendIfKey(rev, jumpTarget, instIdx)
                            ELSE rev
                  IN  IF fallThrough >= 0 /\ fallThrough < n
                      THEN AppendIfKey(r1, fallThrough, instIdx)
                      ELSE r1
        ELSE seqFlow

RECURSIVE rebuildBlock(_, _, _, _, _)
rebuildBlock(insts, nodesLen, rev, node, i) ==
    IF i >= nodesLen[node] \/ node + i >= Len(insts) THEN rev
    ELSE rebuildBlock(insts, nodesLen,
                      rebuildStep(insts, nodesLen, rev, node, i), node, i + 1)

RECURSIVE rebuildInstructionNodeRev(_, _, _, _)
rebuildInstructionNodeRev(insts, nodesLen, rev, sortedNodes) ==
    IF sortedNodes = <<>> THEN rev
    ELSE rebuildInstructionNodeRev(insts, nodesLen,
             rebuildBlock(insts, nodesLen, rev, Head(sortedNodes), 0),
             Tail(sortedNodes))

\* updateInstructionNode: the targets of NodesRev are visited in the order
\* `order` (Go's map order); each source gains the target as a successor when
\* it has not got it, and the target's predecessor list is sorted.
RECURSIVE addSources(_, _, _)
addSources(nodes, target, sources) ==
    IF sources = <<>> THEN nodes
    ELSE LET source == Head(sources)
             succs == Get(nodes, source)
         IN  addSources(IF Contains(succs, target) THEN nodes
                        ELSE Put(nodes, source, Append(succs, target)),
                        target, Tail(sources))

RECURSIVE updateInstructionNode(_, _, _)
updateInstructionNode(nodes, rev, order) ==
    IF order = <<>> THEN [Nodes |-> nodes, NodesRev |-> rev]
    ELSE LET target == Head(order)
             n0 == IF target \in DOMAIN nodes THEN nodes ELSE Put(nodes, target, <<>>)
         IN  updateInstructionNode(addSources(n0, target, rev[target]),
                                   [rev EXCEPT ![target] = SortInts(@)],
                                   Tail(order))

\* buildControlFlowGraph, with the map order of updateInstructionNode given.
buildControlFlowGraph(insts, order) ==
    LET nodes0 == buildInstructionNode(insts, 0, [Nodes |-> EmptyMap, currentNode |-> 0])
        lens == buildInstructionNodeLength(Len(insts), buildInstructionNodeReverse(nodes0))
        rev1 == rebuildInstructionNodeRev(insts, lens.NodesLen, lens.NodesRev,
                                          SortedSeq(DOMAIN lens.NodesLen))
        upd == updateInstructionNode(nodes0, rev1, order)
    IN  [Nodes |-> upd.Nodes, NodesRev |-> upd.NodesRev,
         NodesLen |-> lens.NodesLen, NodeStats |-> EmptyMap]

\* The key set of NodesRev before updateInstructionNode runs.
cfgRevKeys(insts) ==
    DOMAIN buildInstructionNodeLength(Len(insts),
        buildInstructionNodeReverse(
            buildInstructionNode(insts, 0, [Nodes |-> EmptyMap, currentNode |-> 0]))).NodesRev

\* ------------------------------------------------------------------------
\* Register state
\* ------------------------------------------------------------------------
Regs == 0..10

NewRegisterState ==
    [Registers |-> [r \in Regs |-> <<>>], Stacks |-> EmptyMap,
     RegAlias |-> [r \in Regs |-> -1]]

\* removeDuplicates: first occurrences, order kept.
RECURSIVE removeDuplicates(_)
removeDuplicates(s) ==
    IF s = <<>> THEN <<>>
    ELSE LET init == removeDuplicates(SubSeq(s, 1, Len(s) - 1))
             x == s[Len(s)]
         IN  IF Contains(init, x) THEN init ELSE Append(init, x)

RECURSIVE ConcatRegisters(_, _)
ConcatRegisters(states, r) ==
    IF states = <<>> THEN <<>>
    ELSE Head(states).Registers[r] \o ConcatRegisters(Tail(states), r)

\* The merged list of one stack offset: the first state that holds it has
\* its list copied; every later one is appended and the result deduplicated.
RECURSIVE MergeStackLists(_, _, _)
MergeStackLists(states, off, acc) ==
    IF states = <<>> THEN acc
    ELSE LET st == Head(states)
         IN  IF off \notin DOMAIN st.Stacks
             THEN MergeStackLists(Tail(states), off, acc)
             ELSE IF acc.found
             THEN MergeStackLists(Tail(states), off,
                      [found |-> TRUE,
                       list |-> removeDuplicates(acc.list \o st.Stacks[off])])
             ELSE MergeStackLists(Tail(states), off,
                      [found |-> TRUE, list |-> st.Stacks[off]])

MergeRegisterStates(states) ==
    IF states = <<>> THEN NewRegisterState
    ELSE [Registers |-> [r \in Regs |-> removeDuplicates(ConcatRegisters(states, r))],
          Stacks |-> [off \in UNION {DOMAIN states[k].Stacks : k \in DOMAIN states} |->
                         MergeStackLists(states, off, [found |-> FALSE, list |-> <<>>]).list],
          RegAlias |-> [r \in Regs |-> -1]]

\* ------------------------------------------------------------------------
\* Dependency recording for one basic block.
\* An environment e = [deps, state, nodesDone, shouldReturn] is threaded
\* through the block; deps[i+1] = [Dependencies, DependedBy] of instruction i.
\* ------------------------------------------------------------------------
FoundDependency(deps, instIdx, depInstIdx) ==
    Contains(deps[instIdx + 1].Dependencies, depInstIdx)

FoundDependedBy(deps, instIdx, byIdx) ==
    Contains(deps[instIdx + 1].DependedBy, byIdx)

AddDependency(deps, instIdx, d) ==
    [deps EXCEPT ![instIdx + 1].Dependencies = Append(@, d)]

AddDependedBy(deps, instIdx, by) ==
    [deps EXCEPT ![instIdx + 1].DependedBy = Append(@, by)]

calculateActualIndex(index, arrayLength) ==
    IF index < 0 THEN arrayLength + index ELSE index

\* Alias case 1: every writer of the aliased stack slot becomes a dependency.
RECURSIVE aliasStackDeps(_, _, _)
aliasStackDeps(deps, instIdx, stackInsts) ==
    IF stackInsts = <<>> THEN deps
    ELSE LET d1 == AddDependency(deps, instIdx, Head(stackInsts))
             actualIndex == calculateActualIndex(Head(stackInsts), Len(deps))
             d2 == IF actualIndex >= 0 /\ actualIndex < Len(deps)
                   THEN AddDependedBy(d1, actualIndex, instIdx)
                   ELSE d1
         IN  aliasStackDeps(d2, instIdx, Tail(stackInsts))

\* ProcessUsedRegisters, the body of the loop over state.Registers[regIdx].
usedRegisterDep(e, instIdx, regIdx, depInstIdx) ==
    LET alias == e.state.RegAlias[regIdx]
        actualDepIndex == calculateActualIndex(depInstIdx, Len(e.deps))
        record(e1) ==
            IF FoundDependency(e1.deps, instIdx, depInstIdx) THEN e1
            ELSE LET d1 == AddDependency(e1.deps, instIdx, depInstIdx)
                 IN  [e1 EXCEPT !.deps =
                         IF /\ actualDepIndex >= 0
                            /\ actualDepIndex < Len(d1)
                            /\ ~FoundDependedBy(d1, actualDepIndex, instIdx)
                         THEN AddDependedBy(d1, actualDepIndex, instIdx)
                         ELSE d1]
    IN  record(IF alias # -1 /\ alias # 0
               THEN IF alias \in DOMAIN e.state.Stacks
                    THEN [e EXCEPT !.deps = aliasStackDeps(e.deps, instIdx,
                                                           e.state.Stacks[alias])]
                    ELSE [e EXCEPT !.state.Stacks = Put(@, alias, <<-1>>),
                                   !.deps = AddDependency(e.deps, instIdx, -1)]
               ELSE e)

RECURSIVE usedRegisterDeps(_, _, _, _)
usedRegisterDeps(e, instIdx, regIdx, depList) ==
    IF depList = <<>> THEN e
    ELSE usedRegisterDeps(usedRegisterDep(e, instIdx, regIdx, Head(depList)),
                          instIdx, regIdx, Tail(depList))

\* ProcessUsedRegisters, the body of the loop over analysis.UsedReg.
usedRegister(e, instIdx, inst, regIdx) ==
    IF regIdx < 0 \/ regIdx >= 11 THEN e
    ELSE LET old == e.state.RegAlias[inst.DstReg]
             newAlias == IF regIdx = 10 THEN 0
                         ELSE IF old # -1 /\ inst.Opcode = BPF_ALU64
                         THEN ToSignedBits(old + ToSignedBits(inst.Imm, 16), 16)
                         ELSE IF inst.Opcode # 133 THEN -1
                         ELSE old
             e1 == [e EXCEPT !.state.RegAlias[inst.DstReg] = newAlias]
         IN  usedRegisterDeps(e1, instIdx, regIdx, e1.state.Registers[regIdx])

RECURSIVE ProcessUsedRegisters(_, _, _, _)
ProcessUsedRegisters(e, instIdx, inst, usedReg) ==
    IF usedReg = <<>> THEN e
    ELSE ProcessUsedRegisters(usedRegister(e, instIdx, inst, Head(usedReg)),
                              instIdx, inst, Tail(usedReg))

\* ProcessUsedStack, tail call: every recorded writer of every slot, -1 skipped.
RECURSIVE tailCallDeps(_, _, _)
tailCallDeps(deps, instIdx, stackInsts) ==
    IF stackInsts = <<>> THEN deps
    ELSE LET w == Head(stackInsts)
             d1 == IF w # -1 /\ w >= 0 /\ w < Len(deps) /\ ~FoundDependency(deps, instIdx, w)
                   THEN AddDependency(deps, instIdx, w)
                   ELSE deps
             d2 == IF w # -1 /\ w >= 0 /\ w < Len(deps) /\ ~FoundDependedBy(d1, w, instIdx)
                   THEN AddDependedBy(d1, w, instIdx)
                   ELSE d1
         IN  tailCallDeps(d2, instIdx, Tail(stackInsts))

RECURSIVE tailCallSlots(_, _, _, _)
tailCallSlots(deps, instIdx, stacks, stackOffsets) ==
    IF stackOffsets = <<>> THEN deps
    ELSE tailCallSlots(tailCallDeps(deps, instIdx, stacks[Head(stackOffsets)]),
                       instIdx, stacks, Tail(stackOffsets))

\* ProcessUsedStack, a load from a recorded slot.
RECURSIVE slotDeps(_, _, _)
slotDeps(deps, instIdx, stackInsts) ==
    IF stackInsts = <<>> THEN deps
    ELSE LET w == Head(stackInsts)
             d1 == IF ~FoundDependency(deps, instIdx, w)
                   THEN AddDependency(deps, instIdx, w)
                   ELSE deps
             actualIndex == calculateActualIndex(w, Len(deps))
             d2 == IF /\ actualIndex >= 0
                      /\ actualIndex < Len(deps)
                      /\ ~FoundDependedBy(d1, actualIndex, instIdx)
                   THEN AddDependedBy(d1, actualIndex, instIdx)
                   ELSE d1
         IN  slotDeps(d2, instIdx, Tail(stackInsts))

ProcessUsedStack(e, instIdx, analysis) ==
    IF Len(analysis.UsedStack) < 2 THEN e
    ELSE LET offset == analysis.UsedStack[1]
         IN  IF offset = 0
             THEN [e EXCEPT !.deps = tailCallSlots(e.deps, instIdx, e.state.Stacks,
                                                   SortedSeq(DOMAIN e.state.Stacks))]
             ELSE IF offset \in DOMAIN e.state.Stacks
             THEN [e EXCEPT !.deps = slotDeps(e.deps, instIdx, e.state.Stacks[offset])]
             ELSE [e EXCEPT !.state.Stacks = Put(@, offset, <<-1>>),
                            !.deps = AddDependency(e.deps, instIdx, -1)]

\* BuildRegisterDependencies, the loop body for one instruction of the block.
buildInstruction(e, insts, revCount, base, instIdx) ==
    LET inst == insts[instIdx + 1]
        e1 == IF inst.Opcode # 191 /\ inst.Opcode # 7
              THEN [e EXCEPT !.state.RegAlias[inst.DstReg] = -1]
              ELSE e
        \* the exit check that ends the loop body
        exitCheck(analysis, e6) ==
            IF analysis.IsExit
            THEN [e6 EXCEPT !.nodesDone = @ \cup {base},
                            !.shouldReturn =
                                IF Cardinality(e6.nodesDone \cup {base}) >= revCount
                                THEN TRUE ELSE @]
            ELSE e6
        \* the register and stack writes, then the stack reads
        writes(analysis, e2) ==
            LET e3 == IF analysis.UpdatedReg >= 0
                      THEN [e2 EXCEPT !.state.Registers[analysis.UpdatedReg] = <<instIdx>>]
                      ELSE e2
                e4 == IF analysis.IsCall
                      THEN [e3 EXCEPT !.state.Registers =
                                [r \in Regs |-> IF r \in 1..5 THEN <<>> ELSE @[r]]]
                      ELSE e3
                e5 == IF Len(analysis.UpdatedStack) >= 2
                      THEN [e4 EXCEPT !.state.Stacks =
                                Put(@, analysis.UpdatedStack[1], <<instIdx>>)]
                      ELSE e4
            IN  exitCheck(analysis, ProcessUsedStack(e5, instIdx, analysis))
        body(analysis) ==
            writes(analysis, ProcessUsedRegisters(e1, instIdx, inst, analysis.UsedReg))
    IN  IF inst.Opcode = 0 THEN e ELSE body(analyzeInstruction(inst))

RECURSIVE BuildRegisterDependencies(_, _, _, _, _, _)
BuildRegisterDependencies(e, insts, revCount, nodeLen, base, i) ==
    IF i >= nodeLen \/ base + i >= Len(insts) THEN e
    ELSE BuildRegisterDependencies(buildInstruction(e, insts, revCount, base, base + i),
                                   insts, revCount, nodeLen, base, i + 1)

\* ------------------------------------------------------------------------
\* Traversal helpers
\* ------------------------------------------------------------------------
\* The states recorded for the given nodes, in the given order.
RECURSIVE StatesOf(_, _)
StatesOf(stats, nodeList) ==
    IF nodeList = <<>> THEN <<>>
    ELSE (IF Head(nodeList) \in DOMAIN stats THEN <<stats[Head(nodeList)]>> ELSE <<>>)
             \o StatesOf(stats, Tail(nodeList))

\* findNextNode's test for an exit instruction (opcode 0x95) inside a block.
blockHasExit(insts, g, node) ==
    /\ node \in DOMAIN g.NodesLen
    /\ \E i \in 0..(g.NodesLen[node] - 1) :
          /\ node + i < Len(insts)
          /\ insts[node + i + 1].Opcode = 149

\* A search that stops at the first ready node of the sorted keys.
RECURSIVE findNextNodeFirst(_, _, _, _, _, _)
findNextNodeFirst(insts, g, nodesDone, inLoop, keys, acc) ==
    IF keys = <<>> \/ acc.found THEN acc
    ELSE LET node == Head(keys)
             ready == /\ node \notin nodesDone
                      /\ ~(inLoop /\ blockHasExit(insts, g, node))
                      /\ \A pred \in Range(g.NodesRev[node]) : pred \in nodesDone
         IN  findNextNodeFirst(insts, g, nodesDone, inLoop, Tail(keys),
                IF ready
                THEN [newBase |-> node, found |-> TRUE,
                      newState |-> MergeRegisterStates(StatesOf(g.NodeStats, g.NodesRev[node]))]
                ELSE acc)

\* findNextNode: the sorted keys of NodesRev are scanned to the end, so the
\* last ready node is the one returned; found is FALSE when newState is nil.
RECURSIVE findNextNode(_, _, _, _, _, _)
findNextNode(insts, g, nodesDone, inLoop, keys, acc) ==
    IF keys = <<>> THEN acc
    ELSE LET node == Head(keys)
             ready == /\ node \notin nodesDone
                      /\ ~(inLoop /\ blockHasExit(insts, g, node))
                      /\ \A pred \in Range(g.NodesRev[node]) : pred \in nodesDone
         IN  findNextNode(insts, g, nodesDone, inLoop, Tail(keys),
                IF ready
                THEN [newBase |-> node, found |-> TRUE,
                      newState |-> MergeRegisterStates(StatesOf(g.NodeStats, g.NodesRev[node]))]
                ELSE acc)

RECURSIVE detectLoop(_, _, _, _)
RECURSIVE detectSuccessors(_, _, _, _)
\* detectLoop returns the path together with the shared visited set.
detectLoop(start, stop, nodes, visited) ==
    LET successors == Get(nodes, start)
    IN  IF successors = <<>> THEN [path |-> <<-1>>, visited |-> visited]
        ELSE IF Contains(successors, stop) THEN [path |-> <<>>, visited |-> visited]
        ELSE LET r == detectSuccessors(successors, stop, nodes,
                          [path |-> <<start>>, visited |-> visited, found |-> FALSE])
             IN  IF r.found
                 THEN [path |-> removeDuplicates(r.path), visited |-> r.visited]
                 ELSE [path |-> <<-1>>, visited |-> r.visited]

detectSuccessors(succs, stop, nodes, acc) ==
    IF succs = <<>> THEN acc
    ELSE IF Head(succs) \in acc.visited
    THEN detectSuccessors(Tail(succs), stop, nodes, acc)
    ELSE LET sub == detectLoop(Head(succs), stop, nodes, acc.visited \cup {Head(succs)})
             through == sub.path = <<>> \/ ~Contains(sub.path, -1)
         IN  detectSuccessors(Tail(succs), stop, nodes,
                 [path |-> IF through THEN acc.path \o sub.path ELSE acc.path,
                  visited |-> sub.visited,
                  found |-> acc.found \/ through])

\* findLoopCandidates: the candidates are visited in map order and the first
\* one with a loop path is returned, so any such candidate can be the result;
\* 0 when there is none.
findLoopCandidates(g, nodesDone) ==
    LET candidates == {succ \in UNION {Range(Get(g.Nodes, d)) : d \in nodesDone} :
                          succ \notin nodesDone}
        looping == {c \in candidates :
                       LET loopPath == detectLoop(c, c, g.Nodes, {}).path
                       IN  Len(loopPath) > 0 /\ ~Contains(loopPath, -1)}
    IN  IF looping = {} THEN {0} ELSE looping

buildLoopState(g, loopHead) ==
    MergeRegisterStates(StatesOf(g.NodeStats, Get(g.NodesRev, loopHead)))

NewLoopInfo(head) == [Head |-> head, Processed |-> {}, Waiting |-> {}]

SameSet(a, b) == Range(a) = Range(b)

\* A convergence check that always asks for another round.
checkLoopNeverConverged(stats, head, newState) == TRUE

\* checkLoopConvergence: TRUE means the loop must be run again.
checkLoopConvergence(stats, head, newState) ==
    IF head \notin DOMAIN stats THEN TRUE
    ELSE LET currentState == stats[head]
         IN  \/ \E r \in Regs : ~SameSet(currentState.Registers[r], newState.Registers[r])
             \/ \E off \in DOMAIN newState.Stacks :
                   \/ off \notin DOMAIN currentState.Stacks
                   \/ ~SameSet(currentState.Stacks[off], newState.Stacks[off])

\* ------------------------------------------------------------------------
\* One invocation of updateDependencies (inferOnly = false), with the loop
\* simulation it runs inline.  aliasKey is {k} when the state passed in is the
\* very object stored as NodeStats[k] (the simulated state handed on after a
\* loop check), so that NodeStats[k] changes with it; {} otherwise.
\* predOrder is the map order in which the loop head's predecessors are read.
\* The result's kind is "return" (the traversal is over), "enter" (the tail
\* call with base/state/aliasKey) or "search" (no ready node: look for loops).
\* ------------------------------------------------------------------------
Env(deps, state, nodesDone) ==
    [deps |-> deps, state |-> state, nodesDone |-> nodesDone, shouldReturn |-> FALSE]

\* The part of updateDependencies from "mark this node as processed" on.
continueTraversal(insts, deps, g, base, state, nodesDone, loops) ==
    LET loopsP == IF loops # <<>>
                  THEN [loops EXCEPT ![Len(loops)].Processed = @ \cup {base}]
                  ELSE loops
        out == [deps |-> deps, g |-> g, nodesDone |-> nodesDone, loops |-> loopsP,
                base |-> base, state |-> state, aliasKey |-> {}, check |-> <<>>]
        next(nx) ==
            IF nx.newBase = 0 THEN out @@ [kind |-> "search"]
            ELSE IF nx.newBase # base
            THEN [out EXCEPT !.base = nx.newBase,
                             !.state = [nx.newState EXCEPT !.RegAlias = state.RegAlias]]
                     @@ [kind |-> "enter"]
            ELSE out @@ [kind |-> "return"]
    IN  next(findNextNode(insts, g, nodesDone, loops # <<>>,
                          SortedSeq(DOMAIN g.NodesRev),
                          [newBase |-> 0, found |-> FALSE, newState |-> NewRegisterState]))

\* The loop branch taken when every predecessor of the loop head is done.
closeLoop(insts, deps, g, base, state, nodesDone, loops, predOrder) ==
    LET top == loops[Len(loops)]
        head == top.Head
        revCount == Cardinality(DOMAIN g.NodesRev)
        simRuns == head \in DOMAIN g.NodesLen
        \* what follows the convergence check
        resume(sim, stats3, continueLoop) ==
            LET g4 == [g EXCEPT !.NodeStats = Put(stats3, head, sim.state)]
                done2 == (sim.nodesDone \ top.Waiting) \ {base}
                done3 == IF continueLoop THEN done2 ELSE done2 \cup {head}
                loops3 == IF continueLoop THEN [loops EXCEPT ![Len(loops)].Waiting = {}]
                          ELSE IF Len(loops) >= 2
                          THEN [SubSeq(loops, 1, Len(loops) - 1) EXCEPT
                                   ![Len(loops) - 1].Waiting = @ \cup {head}]
                          ELSE <<>>
                \* the record of this check: the state found in NodeStats[head]
                \* on entry, the simulated state, the verdict, and the
                \* dependency arrays before and after the simulation pass
                made == << [head |-> head, stored |-> StatesOf(g.NodeStats, <<head>>),
                            simulated |-> sim.state, continueLoop |-> continueLoop,
                            depsBefore |-> deps, depsAfter |-> sim.deps] >>
            IN  IF loops3 # <<>>
                THEN [kind |-> "enter", deps |-> sim.deps, g |-> g4, nodesDone |-> done3,
                      loops |-> loops3, base |-> loops3[Len(loops3)].Head,
                      state |-> sim.state, aliasKey |-> {head}, check |-> made]
                ELSE [continueTraversal(insts, sim.deps, g4, base, state, done3, loops3)
                         EXCEPT !.check = made]
        check(sim, stats3) ==
            resume(sim, stats3, checkLoopConvergence(stats3, head, sim.state))
        \* the simulated pass stores its state as NodeStats[head] unless it
        \* returns early
        simulated(sim) ==
            check(sim, IF simRuns /\ ~sim.shouldReturn
                       THEN Put(g.NodeStats, head, sim.state)
                       ELSE g.NodeStats)
        simulate(mergedState) ==
            simulated(IF simRuns
                      THEN BuildRegisterDependencies(Env(deps, mergedState, nodesDone),
                               insts, revCount, g.NodesLen[head], head, 0)
                      ELSE Env(deps, mergedState, nodesDone))
    IN  simulate(MergeRegisterStates(StatesOf(g.NodeStats, predOrder)))

updateDependencies(insts, deps, g, base, state, aliasKey, nodesDone, loops, predOrder) ==
    LET revCount == Cardinality(DOMAIN g.NodesRev)
        stop == [kind |-> "return", deps |-> deps, g |-> g, nodesDone |-> nodesDone,
                 loops |-> loops, base |-> base, state |-> state, aliasKey |-> {},
                 check |-> <<>>]
        \* the loop bookkeeping, then the search for the next node
        proceed(e, g2, done1, loopsW) ==
            IF loops # <<>> /\ Range(Get(g.NodesRev, loops[Len(loops)].Head)) \subseteq done1
            THEN closeLoop(insts, e.deps, g2, base, e.state, done1, loops, predOrder)
            ELSE continueTraversal(insts, e.deps, g2, base, e.state, done1, loopsW)
        afterBlock(e) ==
            LET stats1 == IF aliasKey # {}
                          THEN Put(g.NodeStats, CHOOSE k \in aliasKey : TRUE, e.state)
                          ELSE g.NodeStats
            IN  IF e.shouldReturn
                THEN [stop EXCEPT !.deps = e.deps, !.g.NodeStats = stats1,
                                  !.nodesDone = e.nodesDone, !.state = e.state]
                ELSE proceed(e, [g EXCEPT !.NodeStats = Put(stats1, base, e.state)],
                             e.nodesDone \cup {base},
                             IF loops = <<>> THEN loops
                             ELSE [loops EXCEPT ![Len(loops)].Waiting = @ \cup {base}])
    IN  IF base \notin DOMAIN g.NodesLen THEN stop
        ELSE afterBlock(BuildRegisterDependencies(Env(deps, state, nodesDone), insts,
                                                  revCount, g.NodesLen[base], base, 0))

\* ------------------------------------------------------------------------
\* Rewrite passes.  A pass maps sec = [insts, deps] to the rewritten pair.
\* ------------------------------------------------------------------------
\* applyConstantPropagation: the test of one MOV-immediate.
canPropagate(sec, i) ==
    \A k \in DOMAIN sec.deps[i + 1].DependedBy :
        LET depIdx == sec.deps[i + 1].DependedBy[k]
            depInst == sec.insts[depIdx + 1]
        IN  /\ GetInstructionClass(depInst) = BPF_STX
            /\ Len(sec.deps[depIdx + 1].Dependencies) = 1
            /\ depInst.Opcode # 219
            /\ depInst.Opcode # 195

RECURSIVE propagationCandidates(_, _)
propagationCandidates(sec, i) ==
    IF i >= Len(sec.insts) THEN <<>>
    ELSE (IF sec.insts[i + 1].Opcode \in {183, 180} /\ canPropagate(sec, i)
          THEN <<i>> ELSE <<>>) \o propagationCandidates(sec, i + 1)

\* A rewrite that keeps the immediate field of the store itself.
propagatedHexKeepingImm(depInst, inst) ==
    Hex2((depInst.Opcode \div 8) * 8 + BPF_ST) \o <<0>>
        \o Slice(depInst.Raw, 3, 8) \o Slice(depInst.Raw, 8, 16)

\* Sprintf("%02x0%s%s", (depInst.Opcode & 0xF8) | BPF_ST, depInst.Raw[3:8], inst.Raw[8:])
propagatedHex(depInst, inst) ==
    Hex2((depInst.Opcode \div 8) * 8 + BPF_ST) \o <<0>>
        \o Slice(depInst.Raw, 3, 8) \o Slice(inst.Raw, 8, 16)

RECURSIVE propagateToStores(_, _, _)
propagateToStores(sec, candIdx, dependedBy) ==
    IF dependedBy = <<>> THEN sec
    ELSE LET depIdx == Head(dependedBy)
             newInst == NewInstruction(propagatedHex(sec.insts[depIdx + 1],
                                                     sec.insts[candIdx + 1]))
         IN  propagateToStores(
                 [sec EXCEPT !.insts[depIdx + 1] = newInst,
                             !.deps[depIdx + 1].Dependencies = <<>>],
                 candIdx, Tail(dependedBy))

RECURSIVE propagateCandidates(_, _)
propagateCandidates(sec, candidates) ==
    IF candidates = <<>> THEN sec
    ELSE LET candIdx == Head(candidates)
             s1 == propagateToStores(sec, candIdx, sec.deps[candIdx + 1].DependedBy)
         IN  propagateCandidates(
                 [s1 EXCEPT !.insts[candIdx + 1] = SetAsNOP(@),
                            !.deps[candIdx + 1].DependedBy = <<>>],
                 Tail(candidates))

applyConstantPropagation(sec) ==
    propagateCandidates(sec, propagationCandidates(sec, 0))

\* The raw immediate "20000000".
Imm32Hex == HexOfBytes(<<32, 0, 0, 0>>)

\* The candidates when the destination registers of the pair are not
\* compared.
RECURSIVE compactionCandidatesAnyDst(_, _)
compactionCandidatesAnyDst(insts, i) ==
    IF i >= Len(insts) - 1 THEN <<>>
    ELSE LET inst1 == insts[i + 1]
             inst2 == insts[i + 2]
         IN  (IF /\ inst1.Opcode = 103
                 /\ inst2.Opcode = 119
                 /\ Slice(inst1.Raw, 8, 16) = Imm32Hex
                 /\ Slice(inst2.Raw, 8, 16) = Imm32Hex
              THEN <<i>> ELSE <<>>) \o compactionCandidatesAnyDst(insts, i + 1)

RECURSIVE compactionCandidates(_, _)
compactionCandidates(insts, i) ==
    IF i >= Len(insts) - 1 THEN <<>>
    ELSE LET inst1 == insts[i + 1]
             inst2 == insts[i + 2]
         IN  (IF /\ inst1.Opcode = 103
                 /\ inst2.Opcode = 119
                 /\ Slice(inst1.Raw, 8, 16) = Imm32Hex
                 /\ Slice(inst2.Raw, 8, 16) = Imm32Hex
                 /\ inst1.DstReg = inst2.DstReg
              THEN <<i>> ELSE <<>>) \o compactionCandidates(insts, i + 1)

\* Sprintf("bc%s%s000000000000", a, b) for two hex digits a and b.
Mov32Hex(a, b) == <<11, 12>> \o a \o b \o [k \in 1..12 |-> 0]

RECURSIVE compact(_, _)
compact(insts, candidates) ==
    IF candidates = <<>> THEN insts
    ELSE LET candIdx == Head(candidates)
             targetReg == Slice(insts[candIdx + 1].Raw, 3, 4)
             newInst == NewInstruction(Mov32Hex(targetReg, targetReg))
         IN  compact([insts EXCEPT ![candIdx + 1] = newInst,
                                   ![candIdx + 2] = SetAsNOP(@)],
                     Tail(candidates))

applyCompaction(sec) ==
    [sec EXCEPT !.insts = compact(sec.insts, compactionCandidates(sec.insts, 0))]

\* fmt "%b" of the value of a hex string: its bits, leading zeros trimmed,
\* and the single digit 0 for the value zero.
HexDigitBits(d) == <<d \div 8, (d \div 4) % 2, (d \div 2) % 2, d % 2>>

RECURSIVE TrimLeadingZeros(_)
TrimLeadingZeros(bits) ==
    IF Len(bits) > 1 /\ Head(bits) = 0 THEN TrimLeadingZeros(Tail(bits)) ELSE bits

RECURSIVE HexBits(_)
HexBits(hexStr) ==
    IF hexStr = <<>> THEN <<>> ELSE HexDigitBits(Head(hexStr)) \o HexBits(Tail(hexStr))

FormatBinary(hexStr) == TrimLeadingZeros(HexBits(hexStr))

\* fmt "%064b": the bits left-padded with zeros to 64 digits.
FormatBinary64(hexStr) == [k \in 1..(64 - 4 * Len(hexStr)) |-> 0] \o HexBits(hexStr)

\* An earlier isMaskPattern, which scans the 64-digit form.
isMaskPatternPadded(hexStr) ==
    LET binStr == FormatBinary64(hexStr)
    IN  /\ hexStr # <<>>
        /\ ~\E a, b \in DOMAIN binStr : a < b /\ binStr[a] = 0 /\ binStr[b] = 1
        /\ Contains(binStr, 1)

\* isMaskPattern: ParseUint fails on the empty string; no 1 after a 0; a 1.
isMaskPattern(hexStr) ==
    LET binStr == FormatBinary(hexStr)
    IN  /\ hexStr # <<>>
        /\ ~\E a, b \in DOMAIN binStr : a < b /\ binStr[a] = 0 /\ binStr[b] = 1
        /\ Contains(binStr, 1)

RECURSIVE findMaskCandidates(_, _)
findMaskCandidates(insts, i) ==
    IF i >= Len(insts) - 1 THEN <<>>
    ELSE LET inst1 == insts[i + 1]
             inst2 == insts[i + 2]
         IN  (IF /\ inst1.Opcode = BPF_LDDW
                 /\ inst2.Opcode = BPF_IMM
                 /\ inst1.SrcReg = 0
                 /\ inst2.Imm = 0
                 /\ isMaskPattern(GetRawImm(inst1))
              THEN <<i>> ELSE <<>>) \o findMaskCandidates(insts, i + 1)

\* A candidate search that pairs every mask with the instruction right after
\* its two slots, whatever the dependency arrays say.
findCandidatesByPosition(sec, maskCandidates) ==
    [panic |-> FALSE,
     found |-> [k \in DOMAIN SelectSeq(maskCandidates,
                                       LAMBDA m : m + 2 < Len(sec.insts)) |->
                   LET m == SelectSeq(maskCandidates,
                                      LAMBDA x : x + 2 < Len(sec.insts))[k]
                   IN  <<m, m + 2>>]]

\* Opcodes the peephole compares with.  The bpf package's definitions of
\* these three constants are absent from the tree; the values are the
\* documented ones (0x5F, 0x77, 0xB4).
ALU_AND_K == 95
ALU_RSH_K == 119
ALU_MOV_K == 180

\* findCandidates, one dependent of one mask: <<>> or one candidate, and
\* panic when the first non-mask dependency is the entry marker -1, which
\* indexes the instruction slice out of range.
maskDependent(sec, maskIdx, depIdx) ==
    LET depInst == sec.insts[depIdx + 1]
        canOptimize == \A k \in DOMAIN sec.deps[depIdx + 1].DependedBy :
                          sec.insts[sec.deps[depIdx + 1].DependedBy[k] + 1].Opcode = ALU_RSH_K
        dependencies == sec.deps[depIdx + 1].Dependencies
        others == SelectSeq(dependencies, LAMBDA d : d # maskIdx)
        hasPre == Len(dependencies) = 2 /\ others # <<>>
        preIdx == Head(others)
    IN  IF depInst.Opcode # ALU_AND_K \/ ~canOptimize
        THEN [panic |-> FALSE, found |-> <<>>]
        ELSE IF hasPre /\ (preIdx < 0 \/ preIdx >= Len(sec.insts))
        THEN [panic |-> TRUE, found |-> <<>>]
        ELSE IF hasPre /\ sec.insts[preIdx + 1].Opcode = ALU_MOV_K
        THEN [panic |-> FALSE, found |-> << <<maskIdx, depIdx, preIdx>> >>]
        ELSE [panic |-> FALSE, found |-> << <<maskIdx, depIdx>> >>]

RECURSIVE maskDependents(_, _, _)
maskDependents(sec, maskIdx, dependedBy) ==
    IF dependedBy = <<>> THEN [panic |-> FALSE, found |-> <<>>]
    ELSE LET first == maskDependent(sec, maskIdx, Head(dependedBy))
             rest == maskDependents(sec, maskIdx, Tail(dependedBy))
         IN  IF first.panic THEN first
             ELSE [panic |-> rest.panic, found |-> first.found \o rest.found]

RECURSIVE findCandidates(_, _)
findCandidates(sec, maskCandidates) ==
    IF maskCandidates = <<>> THEN [panic |-> FALSE, found |-> <<>>]
    ELSE LET maskIdx == Head(maskCandidates)
             first == maskDependents(sec, maskIdx, sec.deps[maskIdx + 1].DependedBy)
             rest == findCandidates(sec, Tail(maskCandidates))
         IN  IF first.panic THEN first
             ELSE [panic |-> rest.panic, found |-> first.found \o rest.found]

\* A three-way rewrite that takes the first nibble from the AND's
\* destination register and the second from the MOV's source register.
peepholeRewriteDstSrc(insts, candidate) ==
    LET newHex == IF Len(candidate) = 3
                  THEN Mov32Hex(Slice(insts[candidate[2] + 1].Raw, 3, 4),
                                Slice(insts[candidate[3] + 1].Raw, 2, 3))
                  ELSE Mov32Hex(Slice(insts[candidate[2] + 1].Raw, 3, 4),
                                Slice(insts[candidate[2] + 1].Raw, 3, 4))
        i1 == [insts EXCEPT ![candidate[1] + 1] = SetAsNOP(@)]
        i2 == [i1 EXCEPT ![candidate[2] + 1] = NewInstruction(newHex)]
        i3 == IF Len(candidate) = 3
              THEN [i2 EXCEPT ![candidate[3] + 1] = SetAsNOP(@)]
              ELSE i2
    IN  [i3 EXCEPT ![candidate[1] + 2] = SetAsNOP(@)]

\* applyPeepholeOptimization(s, candidates), one candidate.
peepholeRewrite(insts, candidate) ==
    LET newHex == IF Len(candidate) = 3
                  THEN Mov32Hex(Slice(insts[candidate[3] + 1].Raw, 2, 3),
                                Slice(insts[candidate[3] + 1].Raw, 3, 4))
                  ELSE Mov32Hex(Slice(insts[candidate[2] + 1].Raw, 3, 4),
                                Slice(insts[candidate[2] + 1].Raw, 3, 4))
        i1 == [insts EXCEPT ![candidate[1] + 1] = SetAsNOP(@)]
        i2 == [i1 EXCEPT ![candidate[2] + 1] = NewInstruction(newHex)]
        i3 == IF Len(candidate) = 3
              THEN [i2 EXCEPT ![candidate[3] + 1] = SetAsNOP(@)]
              ELSE i2
    IN  [i3 EXCEPT ![candidate[1] + 2] = SetAsNOP(@)]

RECURSIVE peepholeRewrites(_, _)
peepholeRewrites(insts, candidates) ==
    IF candidates = <<>> THEN insts
    ELSE peepholeRewrites(peepholeRewrite(insts, Head(candidates)), Tail(candidates))

\* Section.applyPeepholeOptimization: panic is TRUE when findCandidates crashes.
applyPeepholeOptimization(sec) ==
    LET c == findCandidates(sec, findMaskCandidates(sec.insts, 0))
    IN  [panic |-> c.panic,
         sec |-> IF c.panic THEN sec
                 ELSE [sec EXCEPT !.insts = peepholeRewrites(sec.insts, c.found)]]

isMemoryOperation(inst) ==
    GetInstructionClass(inst) \in {BPF_LD, BPF_LDX, BPF_ST, BPF_STX}

getMemorySize(inst) ==
    LET sizeMask == ((inst.Opcode \div 8) % 4) * 8
    IN  IF sizeMask = SIZE_B THEN 1
        ELSE IF sizeMask = SIZE_H THEN 2
        ELSE IF sizeMask = SIZE_W THEN 4
        ELSE 8

canMergeMemoryOps(inst1, inst2) ==
    /\ inst1.DstReg = inst2.DstReg
    /\ inst1.SrcReg = inst2.SrcReg
    /\ inst2.Offset = ToSignedBits(inst1.Offset + getMemorySize(inst1), 16)

\* Section.applySuperwordMerge: adjacent pairs, each seeing the earlier merges;
\* the merged operation is a copy of the first.
RECURSIVE applySuperwordMerge(_, _)
applySuperwordMerge(insts, i) ==
    IF i >= Len(insts) - 1 THEN insts
    ELSE LET inst1 == insts[i + 1]
             inst2 == insts[i + 2]
         IN  applySuperwordMerge(
                 IF /\ isMemoryOperation(inst1)
                    /\ isMemoryOperation(inst2)
                    /\ canMergeMemoryOps(inst1, inst2)
                 THEN [insts EXCEPT ![i + 2] = SetAsNOP(@)]
                 ELSE insts,
                 i + 1)

\* ------------------------------------------------------------------------
\* SuperwordMerger (store merging driven by Section.StoreCandidates)
\* ------------------------------------------------------------------------
getCap(offset) ==
    IF offset % 8 = 0 THEN 64
    ELSE IF offset % 4 = 0 THEN 32
    ELSE IF offset % 2 = 0 THEN 16
    ELSE 8

getSize(inst) ==
    LET mask == ((inst.Opcode \div 8) % 4) * 8
    IN  IF mask = 0 THEN 32
        ELSE IF mask = 8 THEN 16
        ELSE IF mask = 16 THEN 8
        ELSE 64

getSizeMask(size) ==
    IF size = 8 THEN 16
    ELSE IF size = 16 THEN 8
    ELSE IF size = 64 THEN 24
    ELSE 0

\* The barrier test shared by the grouping loop and hasInterveningJumpOrLoad.
isBarrierSkippingNop(inst) ==
    /\ GetInstructionClass(inst) \in {BPF_LDX, BPF_JMP, BPF_JMP32}
    /\ inst.Raw # NOP

isBarrier(inst) == GetInstructionClass(inst) \in {BPF_LDX, BPF_JMP, BPF_JMP32}

hasInterveningJumpOrLoad(insts, start, end) ==
    \E i \in (start + 1)..(end - 1) : isBarrier(insts[i + 1])

\* sort.Slice by (dst, off); for the short slices sorted here Go sorts by
\* insertion, which keeps equal elements in their order.
RECURSIVE InsertOp(_, _)
InsertOp(s, x) ==
    IF s = <<>> THEN <<x>>
    ELSE IF x.dst < Head(s).dst \/ (x.dst = Head(s).dst /\ x.off < Head(s).off)
    THEN <<x>> \o s
    ELSE <<Head(s)>> \o InsertOp(Tail(s), x)

RECURSIVE SortOps(_)
SortOps(s) ==
    IF s = <<>> THEN <<>>
    ELSE InsertOp(SortOps(SubSeq(s, 1, Len(s) - 1)), s[Len(s)])

processGroup(group) ==
    IF Len(group) = 8 THEN <<group>>
    ELSE IF Len(group) >= 6 THEN <<SubSeq(group, 1, 4), SubSeq(group, 5, 6)>>
    ELSE IF Len(group) >= 4 THEN <<SubSeq(group, 1, 4)>>
    ELSE IF Len(group) >= 2 THEN <<SubSeq(group, 1, 2)>>
    ELSE <<>>

\* analyse, inner loop: the last position k of the run that starts at j.
RECURSIVE runEnd(_, _, _, _)
runEnd(ops, j, k, off) ==
    IF /\ k + 1 <= Len(ops)
       /\ ops[j].dst = ops[k + 1].dst
       /\ ToSignedBits(off + ops[j].size \div 8, 16) = ops[k + 1].off
       /\ ops[j].size = ops[k + 1].size
       /\ ops[j].size * (k + 1 - j + 1) <= getCap(ops[j].off)
    THEN runEnd(ops, j, k + 1, ops[k + 1].off)
    ELSE k

\* analyse, outer loop over the sorted operations from position j.
RECURSIVE analyseFrom(_, _)
analyseFrom(ops, j) ==
    IF j > Len(ops) THEN <<>>
    ELSE LET k == runEnd(ops, j, j, ops[j].off)
             currentGroup == [x \in 1..(k - j + 1) |-> ops[j + x - 1].index]
         IN  processGroup(currentGroup) \o analyseFrom(ops, k + 1)

analyse(group) ==
    IF Len(group) < 2 THEN <<>> ELSE analyseFrom(SortOps(group), 1)

\* analyseGroup: the operations are decoded again from the raw strings.
analyseGroup(insts, indices) ==
    IF Len(indices) < 2 THEN <<>>
    ELSE analyse([x \in DOMAIN indices |->
                     LET inst == NewInstruction(insts[indices[x] + 1].Raw)
                     IN  [dst |-> inst.DstReg, off |-> inst.Offset,
                          size |-> getSize(inst), index |-> indices[x]]])

isSubset(a, b) == Len(a) < Len(b) /\ Range(a) \subseteq Range(b)

eliminateOverlappingCandidates(candidates) ==
    SelectSeq([x \in DOMAIN candidates |-> [c |-> candidates[x], at |-> x]],
              LAMBDA e : ~\E y \in DOMAIN candidates :
                             y # e.at /\ isSubset(e.c, candidates[y]))

\* The grouping loop over the sorted store candidates, from position i, with
\* the indices of the current group and the candidates found so far.
RECURSIVE groupStores(_, _, _, _, _)
groupStores(insts, sorted, i, indices, allCandidates) ==
    IF i >= Len(sorted)
    THEN allCandidates \o analyseGroup(insts, indices)
    ELSE LET currentIdx == sorted[i]
             nextIdx == sorted[i + 1]
             started == IF indices = <<>> THEN <<currentIdx>> ELSE indices
             flag == \E j \in (currentIdx + 1)..(nextIdx - 1) : isBarrier(insts[j + 1])
         IN  IF flag
             THEN groupStores(insts, sorted, i + 1, <<>>,
                              allCandidates \o analyseGroup(insts, started))
             ELSE groupStores(insts, sorted, i + 1, Append(started, nextIdx),
                              allCandidates)

\* applyMerges, the new raw string of a valid candidate.
mergedHex(insts, candidate) ==
    LET firstInst == insts[candidate[1] + 1]
        elemSize == getSize(firstInst)
        newSize == elemSize * Len(candidate)
        immLen == elemSize \div 4
        parts == [x \in DOMAIN candidate |->
                     IF Len(insts[candidate[x] + 1].Raw) >= 8 + immLen
                     THEN Slice(insts[candidate[x] + 1].Raw, 8, 8 + immLen)
                     ELSE <<>>]
        joined == Flatten(parts)
        cut == IF newSize = 64 /\ Len(joined) > 8 THEN SubSeq(joined, 1, 8) ELSE joined
        newImm == cut \o [x \in 1..(8 - Len(cut)) |-> 0]
        newOpcode == BPF_MEM + getSizeMask(newSize) + BPF_ST
    IN  Hex2(newOpcode) \o Slice(firstInst.Raw, 2, 8) \o newImm

\* applyMerges, the checks that let a candidate through.
mergeable(insts, candidate) ==
    LET firstInst == insts[candidate[1] + 1]
        elemSize == getSize(firstInst)
    IN  /\ Len(candidate) >= 2
        /\ \A x \in 2..Len(candidate) :
              /\ insts[candidate[x] + 1].DstReg = firstInst.DstReg
              /\ getSize(insts[candidate[x] + 1]) = elemSize
        /\ ~hasInterveningJumpOrLoad(insts, candidate[1], candidate[Len(candidate)])
        /\ elemSize * Len(candidate) \in {16, 32, 64}
        /\ Len(mergedHex(insts, candidate)) = 16

\* applyMerges: m = [insts, applied], applied being the candidates merged.
RECURSIVE applyMerges(_, _)
applyMerges(m, candidates) ==
    IF candidates = <<>> THEN m
    ELSE LET candidate == SortInts(Head(candidates).c)
             newInst == NewInstruction(mergedHex(m.insts, candidate))
             rest == {candidate[x] : x \in 2..Len(candidate)}
         IN  applyMerges(
                 IF mergeable(m.insts, candidate)
                 THEN [insts |-> [k \in DOMAIN m.insts |->
                                     IF k = candidate[1] + 1 THEN newInst
                                     ELSE IF k - 1 \in rest THEN SetAsNOP(m.insts[k])
                                     ELSE m.insts[k]],
                       applied |-> Append(m.applied, candidate)]
                 ELSE m,
                 Tail(candidates))

applySuperwordMergeWithCandidates(insts, storeCandidates) ==
    IF Len(storeCandidates) < 2 THEN [insts |-> insts, applied |-> <<>>]
    ELSE applyMerges([insts |-> insts, applied |-> <<>>],
             eliminateOverlappingCandidates(
                 groupStores(insts, SortInts(storeCandidates), 1, <<>>, <<>>)))

\* Dump: the bytes of the concatenated raw strings.
RECURSIVE BytesOfHex(_)
BytesOfHex(hexStr) ==
    IF Len(hexStr) < 2 THEN <<>>
    ELSE <<16 * hexStr[1] + hexStr[2]>> \o BytesOfHex(SubSeq(hexStr, 3, Len(hexStr)))

RECURSIVE ConcatRaw(_)
ConcatRaw(insts) ==
    IF insts = <<>> THEN <<>> ELSE ToHex(Head(insts)) \o ConcatRaw(Tail(insts))

\* A serialisation that leaves eliminated instructions out.
DumpWithoutNops(insts) ==
    BytesOfHex(ConcatRaw(SelectSeq(insts, LAMBDA inst : inst.Raw # NOP)))

Dump(insts) == BytesOfHex(ConcatRaw(insts))

\* ------------------------------------------------------------------------
\* Sections under analysis
\* ------------------------------------------------------------------------
MovR1Imm == <<\Hb7, \H01, \H00, \H00, \H05, \H00, \H00, \H00>>
StxStackR1 == <<\H7b, \H1a, \H00, \H08, \H00, \H00, \H00, \H00>>
CallHelper12 == <<\H85, \H00, \H00, \H00, \H0c, \H00, \H00, \H00>>
JneBack == <<\H55, \H01, \Hff, \Hfe, \H00, \H00, \H00, \H00>>
ExitInsn == <<\H95, \H00, \H00, \H00, \H00, \H00, \H00, \H00>>
Lsh32 == <<\H67, \H01, \H00, \H00, \H20, \H00, \H00, \H00>>
Rsh32 == <<\H77, \H01, \H00, \H00, \H20, \H00, \H00, \H00>>

\* A call whose decoded immediate is 12.
CallImm12 == <<\H85, \H00, \H00, \H00, \H00, \H00, \H00, \H0c>>

Palette == {MovR1Imm, StxStackR1, CallHelper12, CallImm12, JneBack, ExitInsn,
            Lsh32, Rsh32}

PaletteSections == {Flatten(p) : p \in UNION {[1..n -> Palette] : n \in 1..MaxLen}}

\* Sections whose byte length is no multiple of 8.
TruncatedSections == {SubSeq(i, 1, 4) : i \in Palette}

\* b70100000a000000 6301100000000000
MovThenStore ==
    Flatten(<< <<\Hb7, \H01, \H00, \H00, \H0a, \H00, \H00, \H00>>,
               <<\H63, \H01, \H10, \H00, \H00, \H00, \H00, \H00>> >>)

\* 18000000ffffffff 0000000000000000 5701000000000000 7701000020000000
MaskAndShift ==
    Flatten(<< <<\H18, \H00, \H00, \H00, \Hff, \Hff, \Hff, \Hff>>,
               <<\H00, \H00, \H00, \H00, \H00, \H00, \H00, \H00>>,
               <<\H57, \H01, \H00, \H00, \H00, \H00, \H00, \H00>>,
               <<\H77, \H01, \H00, \H00, \H20, \H00, \H00, \H00>> >>)

\* b401000000000000 18000000ffffffff 0000000000000000 5f01000000000000
MaskByRegister ==
    Flatten(<< <<\Hb4, \H01, \H00, \H00, \H00, \H00, \H00, \H00>>,
               <<\H18, \H00, \H00, \H00, \Hff, \Hff, \Hff, \Hff>>,
               <<\H00, \H00, \H00, \H00, \H00, \H00, \H00, \H00>>,
               <<\H5f, \H01, \H00, \H00, \H00, \H00, \H00, \H00>> >>)

\* b701000005000000 7312ffff00000000 db12000000000000
StoreThenAtomic ==
    Flatten(<< <<\Hb7, \H01, \H00, \H00, \H05, \H00, \H00, \H00>>,
               <<\H73, \H12, \Hff, \Hff, \H00, \H00, \H00, \H00>>,
               <<\Hdb, \H12, \H00, \H00, \H00, \H00, \H00, \H00>> >>)

\* 18000000ffffffff 0000000000000000 5f01000000000000 7701000020000000
MaskByEntryRegister ==
    Flatten(<< <<\H18, \H00, \H00, \H00, \Hff, \Hff, \Hff, \Hff>>,
               <<\H00, \H00, \H00, \H00, \H00, \H00, \H00, \H00>>,
               <<\H5f, \H01, \H00, \H00, \H00, \H00, \H00, \H00>>,
               <<\H77, \H01, \H00, \H00, \H20, \H00, \H00, \H00>> >>)

FixedSections == {MovThenStore, MaskAndShift, MaskByRegister, MaskByEntryRegister,
                  StoreThenAtomic}

Sections == PaletteSections \cup TruncatedSections \cup FixedSections

VARIABLES data, skipOptimization, pc, Instructions, Dependencies, cfg, base,
          state, aliasKey, nodesDone, loops, visits, convergence, StoreCandidates,
          applied, output, rerun, first, hexStr, isMask

vars == <<data, skipOptimization, pc, Instructions, Dependencies, cfg, base,
          state, aliasKey, nodesDone, loops, visits, convergence, StoreCandidates,
          applied, output, rerun, first, hexStr, isMask>>

engineVars == <<cfg, base, state, aliasKey, nodesDone, loops, visits, convergence>>

mergerVars == <<StoreCandidates, applied>>

rerunVars == <<rerun, first>>

maskVars == <<hexStr, isMask>>

EmptyCfg == [Nodes |-> EmptyMap, NodesRev |-> EmptyMap, NodesLen |-> EmptyMap,
             NodeStats |-> EmptyMap]

\* The state before a section is loaded.
Unloaded ==
    /\ pc = "load"
    /\ Instructions = <<>>
    /\ Dependencies = <<>>
    /\ cfg = EmptyCfg
    /\ base = 0
    /\ state = NewRegisterState
    /\ aliasKey = {}
    /\ nodesDone = {}
    /\ loops = <<>>
    /\ visits = <<>>
    /\ convergence = <<>>
    /\ StoreCandidates = <<>>
    /\ applied = <<>>
    /\ output = <<>>
    /\ rerun = "none"
    /\ first = [output |-> <<>>, deps |-> <<>>]
    /\ hexStr = <<>>
    /\ isMask = FALSE

Init ==
    /\ data \in Sections
    /\ skipOptimization \in BOOLEAN
    /\ Unloaded

\* The instructions of a hex string whose length is a multiple of 16.
parseInstructions(hexData) ==
    [k \in 1..(Len(hexData) \div 16) |->
        NewInstruction(Slice(hexData, 16 * (k - 1), 16 * k))]

\* NewSection up to the call of buildDependencies: the length check and the
\* decoding of every 16-digit slot of hex.EncodeToString(data).
NewSection ==
    /\ pc = "load"
    /\ LET hexData == HexOfBytes(data)
       IN  IF Len(hexData) % 16 # 0
           THEN /\ pc' = "rejected"
                /\ UNCHANGED <<Instructions, Dependencies>>
           ELSE /\ pc' = "cfg"
                /\ Instructions' = parseInstructions(hexData)
                /\ Dependencies' =
                       [k \in 1..(Len(hexData) \div 16) |->
                           [Dependencies |-> <<>>, DependedBy |-> <<>>]]
    /\ UNCHANGED <<data, skipOptimization, engineVars, mergerVars, output,
                   rerunVars, maskVars>>

\* buildDependencies up to the first call of updateDependencies.
BuildControlFlowGraph ==
    /\ pc = "cfg"
    /\ \E order \in MapOrders(cfgRevKeys(Instructions)) :
          cfg' = buildControlFlowGraph(Instructions, order)
    /\ base' = 0
    /\ state' = [NewRegisterState EXCEPT !.Registers[1] = <<-1>>,
                                         !.Registers[10] = <<-1>>]
    /\ aliasKey' = {}
    /\ nodesDone' = {}
    /\ loops' = <<>>
    /\ visits' = <<>>
    /\ convergence' = <<>>
    /\ pc' = "analyze"
    /\ UNCHANGED <<data, skipOptimization, Instructions, Dependencies, mergerVars,
                   output, rerunVars, maskVars>>

PredOrders ==
    IF loops = <<>> THEN {<<>>}
    ELSE MapOrders(Range(Get(cfg.NodesRev, loops[Len(loops)].Head)))

\* Where NewSection goes on when buildDependencies has returned.
AfterAnalysis == IF skipOptimization THEN "dump" ELSE "cp"

\* The cap on the count of invocations of updateDependencies in one run.
MaxVisits == 16

\* One invocation of updateDependencies.  visits lists the blocks the
\* invocations of the current run were started on, up to MaxVisits of them;
\* convergence holds the loop check of the latest invocation, when it made one.
UpdateDependencies ==
    /\ pc = "analyze"
    /\ visits' = IF Len(visits) < MaxVisits THEN Append(visits, base) ELSE visits
    /\ \E predOrder \in PredOrders :
          \E r \in {updateDependencies(Instructions, Dependencies, cfg, base, state,
                                       aliasKey, nodesDone, loops, predOrder)} :
              /\ Dependencies' = r.deps
              /\ nodesDone' = r.nodesDone
              /\ convergence' = r.check
              /\ IF r.kind = "search"
                 THEN \E loopHead \in findLoopCandidates(r.g, r.nodesDone) :
                         IF loopHead # 0
                         THEN /\ pc' = "analyze"
                              /\ cfg' = r.g
                              /\ loops' = Append(r.loops, NewLoopInfo(loopHead))
                              /\ base' = loopHead
                              /\ state' = buildLoopState(r.g, loopHead)
                              /\ aliasKey' = {}
                         ELSE /\ pc' = AfterAnalysis
                              /\ cfg' = r.g
                              /\ loops' = r.loops
                              /\ UNCHANGED <<base, state, aliasKey>>
                 ELSE /\ pc' = IF r.kind = "enter" THEN "analyze" ELSE AfterAnalysis
                      /\ cfg' = r.g
                      /\ loops' = r.loops
                      /\ base' = r.base
                      /\ state' = r.state
                      /\ aliasKey' = r.aliasKey
    /\ UNCHANGED <<data, skipOptimization, Instructions, mergerVars, output,
                   rerunVars, maskVars>>

Section == [insts |-> Instructions, deps |-> Dependencies]

ApplyConstantPropagation ==
    /\ pc = "cp"
    /\ LET sec == applyConstantPropagation(Section)
       IN  /\ Instructions' = sec.insts
           /\ Dependencies' = sec.deps
    /\ pc' = "compaction"
    /\ UNCHANGED <<data, skipOptimization, engineVars, mergerVars, output,
                   rerunVars, maskVars>>

ApplyCompaction ==
    /\ pc = "compaction"
    /\ Instructions' = applyCompaction(Section).insts
    /\ pc' = "peephole"
    /\ UNCHANGED <<data, skipOptimization, Dependencies, engineVars, mergerVars,
                   output, rerunVars, maskVars>>

\* The crash of findCandidates ends the process: pc = "panic".
ApplyPeepholeOptimization ==
    /\ pc = "peephole"
    /\ LET r == applyPeepholeOptimization(Section)
       IN  /\ Instructions' = r.sec.insts
           /\ pc' = IF r.panic THEN "panic" ELSE "superword"
    /\ UNCHANGED <<data, skipOptimization, Dependencies, engineVars, mergerVars,
                   output, rerunVars, maskVars>>

ApplySuperwordMerge ==
    /\ pc = "superword"
    /\ Instructions' = applySuperwordMerge(Instructions, 0)
    /\ pc' = "dump"
    /\ UNCHANGED <<data, skipOptimization, Dependencies, engineVars, mergerVars,
                   output, rerunVars, maskVars>>

DumpSection ==
    /\ pc = "dump"
    /\ output' = Dump(Instructions)
    /\ pc' = "done"
    /\ UNCHANGED <<data, skipOptimization, Instructions, Dependencies, engineVars,
                   mergerVars, rerunVars, maskVars>>

\* The section is handed to NewSection a second time: the engine and the
\* section start afresh, and the first run's results are kept for comparison.
Reloaded ==
    /\ pc' = "load"
    /\ Instructions' = <<>>
    /\ Dependencies' = <<>>
    /\ cfg' = EmptyCfg
    /\ base' = 0
    /\ state' = NewRegisterState
    /\ aliasKey' = {}
    /\ nodesDone' = {}
    /\ loops' = <<>>
    /\ visits' = <<>>
    /\ convergence' = <<>>
    /\ output' = <<>>
    /\ first' = [output |-> output, deps |-> Dependencies]
    /\ UNCHANGED <<skipOptimization, mergerVars, maskVars>>

\* A second run over the same input bytes.
RunAgainOnInput ==
    /\ pc = "done"
    /\ rerun = "none"
    /\ rerun' = "same"
    /\ data' = data
    /\ Reloaded

\* A second run over the bytes the first run wrote.
RunAgainOnOutput ==
    /\ pc = "done"
    /\ rerun = "none"
    /\ rerun' = "output"
    /\ data' = output
    /\ Reloaded

Next ==
    \/ NewSection
    \/ BuildControlFlowGraph
    \/ UpdateDependencies
    \/ ApplyConstantPropagation
    \/ ApplyCompaction
    \/ ApplyPeepholeOptimization
    \/ ApplySuperwordMerge
    \/ DumpSection

Spec == Init /\ [][Next]_vars

NextTwice == Next \/ RunAgainOnInput \/ RunAgainOnOutput

SpecTwice == Init /\ [][NextTwice]_vars

\* ------------------------------------------------------------------------
\* The SuperwordMerger on its own: a section's instructions together with
\* the store indices handed to it in Section.StoreCandidates.
\* ------------------------------------------------------------------------
StoreByte0 == <<\H72, \H0a, \H00, \H00, \H11, \H00, \H00, \H00>>
StoreByte1 == <<\H72, \H0a, \H00, \H01, \H22, \H00, \H00, \H00>>
NopInsn == <<\H05, \H00, \H00, \H00, \H00, \H00, \H00, \H00>>
LdxInsn == <<\H61, \H12, \H00, \H00, \H00, \H00, \H00, \H00>>

MergePalette == {StoreByte0, StoreByte1, NopInsn, LdxInsn, Lsh32}

MergeSections == {Flatten(p) : p \in UNION {[1..n -> MergePalette] : n \in 1..MaxLen}}

\* The indices of the store instructions (class ST or STX) of a section.
StoreIndices(bytes) ==
    {i \in 0..(Len(bytes) \div 8 - 1) : bytes[8 * i + 1] % 8 \in {BPF_ST, BPF_STX}}

InitMerge ==
    /\ data \in MergeSections
    /\ skipOptimization = TRUE
    /\ pc = "merger"
    /\ Instructions = parseInstructions(HexOfBytes(data))
    /\ Dependencies = [k \in 1..(Len(data) \div 8) |->
                          [Dependencies |-> <<>>, DependedBy |-> <<>>]]
    /\ cfg = EmptyCfg
    /\ base = 0
    /\ state = NewRegisterState
    /\ aliasKey = {}
    /\ nodesDone = {}
    /\ loops = <<>>
    /\ visits = <<>>
    /\ convergence = <<>>
    /\ StoreCandidates \in {SortedSeq(c) : c \in SUBSET StoreIndices(data)}
    /\ applied = <<>>
    /\ output = <<>>
    /\ rerun = "none"
    /\ first = [output |-> <<>>, deps |-> <<>>]
    /\ hexStr = <<>>
    /\ isMask = FALSE

\* SuperwordMerger.ApplySuperwordMergeWithCandidates; applied records the
\* candidates that applyMerges merged.
ApplySuperwordMergeWithCandidates ==
    /\ pc = "merger"
    /\ LET m == applySuperwordMergeWithCandidates(Instructions, StoreCandidates)
       IN  /\ Instructions' = m.insts
           /\ applied' = m.applied
    /\ pc' = "dump"
    /\ UNCHANGED <<data, skipOptimization, Dependencies, engineVars, StoreCandidates,
                   output, rerunVars, maskVars>>

NextMerge == ApplySuperwordMergeWithCandidates \/ DumpSection

SpecMerge == InitMerge /\ [][NextMerge]_vars

\* ------------------------------------------------------------------------
\* The mask-pattern recognizer on its own, over every hex string of up to
\* MaxHexLen digits.
\* ------------------------------------------------------------------------
MaxHexLen == 3

HexStrings == UNION {[1..n -> 0..15] : n \in 1..MaxHexLen}

InitMask ==
    /\ hexStr \in HexStrings
    /\ isMask = FALSE
    /\ pc = "mask"
    /\ data = <<>>
    /\ skipOptimization = TRUE
    /\ Instructions = <<>>
    /\ Dependencies = <<>>
    /\ cfg = EmptyCfg
    /\ base = 0
    /\ state = NewRegisterState
    /\ aliasKey = {}
    /\ nodesDone = {}
    /\ loops = <<>>
    /\ visits = <<>>
    /\ convergence = <<>>
    /\ StoreCandidates = <<>>
    /\ applied = <<>>
    /\ output = <<>>
    /\ rerun = "none"
    /\ first = [output |-> <<>>, deps |-> <<>>]

IsMaskPattern ==
    /\ pc = "mask"
    /\ isMask' = isMaskPattern(hexStr)
    /\ pc' = "masked"
    /\ UNCHANGED <<data, skipOptimization, Instructions, Dependencies, engineVars,
                   mergerVars, output, rerunVars, hexStr>>

NextMask == IsMaskPattern

SpecMask == InitMask /\ [][NextMask]_vars

\* ------------------------------------------------------------------------
\* NewSection on a hex string given as such: the digit NonHex stands for a
\* character that is no hexadecimal digit.
\* ------------------------------------------------------------------------
NonHex == 16

IsHex(h) == \A k \in DOMAIN h : h[k] \in 0..15

\* A decoder that validates the opcode field only.
NewInstructionFailsOnOpcodeOnly(h) ==
    \/ Len(h) # 16
    \/ ~IsHex(Slice(h, 0, 2))

\* NewInstruction's error result: the length test, ParseUint of hex[0:2] and
\* hex[2:4], DecodeString of hex[6:8]+hex[4:6] and of the four immediate bytes.
NewInstructionFails(h) ==
    \/ Len(h) # 16
    \/ ~IsHex(Slice(h, 0, 2))
    \/ ~IsHex(Slice(h, 2, 4))
    \/ ~IsHex(Slice(h, 6, 8) \o Slice(h, 4, 6))
    \/ ~IsHex(Slice(h, 14, 16) \o Slice(h, 12, 14) \o Slice(h, 10, 12) \o Slice(h, 8, 10))

\* The digit positions (from 1) at which an input is corrupted: the first
\* digit of every field and the last digit of every slot.
CorruptPositions(h) ==
    {16 * s + f : s \in 0..(Len(h) \div 16 - 1), f \in {1, 3, 5, 9, 16}}

HexInputs ==
    UNION {LET h == HexOfBytes(sec)
           IN  {h} \cup {[h EXCEPT ![k] = NonHex] : k \in CorruptPositions(h)}
                   \cup {SubSeq(h, 1, Len(h) - d) : d \in {1, 8, 15}}
           : sec \in Sections}

InitHex ==
    /\ hexStr \in HexInputs
    /\ isMask = FALSE
    /\ data = <<>>
    /\ skipOptimization \in BOOLEAN
    /\ pc = "loadhex"
    /\ Instructions = <<>>
    /\ Dependencies = <<>>
    /\ cfg = EmptyCfg
    /\ base = 0
    /\ state = NewRegisterState
    /\ aliasKey = {}
    /\ nodesDone = {}
    /\ loops = <<>>
    /\ visits = <<>>
    /\ convergence = <<>>
    /\ StoreCandidates = <<>>
    /\ applied = <<>>
    /\ output = <<>>
    /\ rerun = "none"
    /\ first = [output |-> <<>>, deps |-> <<>>]

\* NewSection(hexData, ...) up to the call of buildDependencies: the length
\* test, then the slots are decoded in order and the first failure returns
\* the error with no section.
NewSectionFromHex ==
    /\ pc = "loadhex"
    /\ IF \/ Len(hexStr) % 16 # 0
          \/ \E k \in 0..(Len(hexStr) \div 16 - 1) :
                NewInstructionFails(Slice(hexStr, 16 * k, 16 * k + 16))
       THEN /\ pc' = "rejected"
            /\ UNCHANGED <<Instructions, Dependencies>>
       ELSE /\ pc' = "cfg"
            /\ Instructions' = parseInstructions(hexStr)
            /\ Dependencies' =
                   [k \in 1..(Len(hexStr) \div 16) |->
                       [Dependencies |-> <<>>, DependedBy |-> <<>>]]
    /\ UNCHANGED <<data, skipOptimization, engineVars, mergerVars, output,
                   rerunVars, maskVars>>

NextHex ==
    \/ NewSectionFromHex
    \/ BuildControlFlowGraph
    \/ UpdateDependencies
    \/ ApplyConstantPropagation
    \/ ApplyCompaction
    \/ ApplyPeepholeOptimization
    \/ ApplySuperwordMerge
    \/ DumpSection

SpecHex == InitHex /\ [][NextHex]_vars

\* ------------------------------------------------------------------------
\* Decoding and re-emitting single instructions, over every 8-byte
\* instruction built from three byte values.
\* ------------------------------------------------------------------------
ByteSamples == {1, 128, 254}

CodecInstructions == [1..8 -> ByteSamples]

InitCodec ==
    /\ data \in CodecInstructions
    /\ skipOptimization = TRUE
    /\ Unloaded

\* Dump on the section as decoded, no analysis or pass in between.
ReEmit ==
    /\ pc = "cfg"
    /\ output' = Dump(Instructions)
    /\ pc' = "done"
    /\ UNCHANGED <<data, skipOptimization, Instructions, Dependencies, engineVars,
                   mergerVars, rerunVars, maskVars>>

NextCodec == NewSection \/ ReEmit

SpecCodec == InitCodec /\ [][NextCodec]_vars

\* ------------------------------------------------------------------------
\* The analysis alone (skipOptimization set) on sections rich in branches:
\* forward and backward conditional jumps, a backward unconditional jump, a
\* jump to itself, exits, and a write and a read of r1.
\* ------------------------------------------------------------------------
JneFwd == <<\H55, \H01, \H00, \H01, \H00, \H00, \H00, \H00>>
JneSelf == <<\H55, \H01, \Hff, \Hff, \H00, \H00, \H00, \H00>>
JneBack3 == <<\H55, \H01, \Hff, \Hfd, \H00, \H00, \H00, \H00>>
JaBack2 == <<\H05, \H00, \Hff, \Hfe, \H00, \H00, \H00, \H00>>

LoopPalette == {Lsh32, JneBack, JneFwd, JneSelf, JneBack3, JaBack2, ExitInsn}

\* 6701000020000000 5501000200000000 6701000020000000 0500fffd00000000:
\* a loop whose header (the conditional jump, instruction 1) leaves the loop
\* or falls into the body, which writes r1 and jumps back to the header.
WhileLoop ==
    Flatten(<< Lsh32,
               <<\H55, \H01, \H00, \H02, \H00, \H00, \H00, \H00>>,
               Lsh32,
               <<\H05, \H00, \Hff, \Hfd, \H00, \H00, \H00, \H00>> >>)

LoopSections ==
    {Flatten(p) : p \in UNION {[1..n -> LoopPalette] : n \in 1..MaxLen}}
        \cup {WhileLoop}

InitLoops ==
    /\ data \in LoopSections
    /\ skipOptimization = TRUE
    /\ Unloaded

NextLoops ==
    \/ NewSection
    \/ BuildControlFlowGraph
    \/ UpdateDependencies
    \/ DumpSection

SpecLoops == InitLoops /\ [][NextLoops]_vars

\* ------------------------------------------------------------------------
\* The SuperwordMerger on 32-bit and 8-bit immediate stores through r10, at
\* the decoded offsets 0, 4 and 1, in any program order.
\* ------------------------------------------------------------------------
StoreWord0 == <<\H62, \H0a, \H00, \H00, \H12, \H00, \H00, \H00>>
StoreWord4 == <<\H62, \H0a, \H00, \H04, \H34, \H00, \H00, \H00>>
StoreWord4Zero == <<\H62, \H0a, \H00, \H04, \H00, \H00, \H00, \H00>>

WidePalette == {StoreWord0, StoreWord4, StoreWord4Zero, StoreByte0, StoreByte1, Lsh32}

WideSections == {Flatten(p) : p \in UNION {[1..n -> WidePalette] : n \in 1..MaxLen}}

InitWide ==
    /\ data \in WideSections
    /\ skipOptimization = TRUE
    /\ pc = "merger"
    /\ Instructions = parseInstructions(HexOfBytes(data))
    /\ Dependencies = [k \in 1..(Len(data) \div 8) |->
                          [Dependencies |-> <<>>, DependedBy |-> <<>>]]
    /\ cfg = EmptyCfg
    /\ base = 0
    /\ state = NewRegisterState
    /\ aliasKey = {}
    /\ nodesDone = {}
    /\ loops = <<>>
    /\ visits = <<>>
    /\ convergence = <<>>
    /\ StoreCandidates \in {SortedSeq(c) : c \in SUBSET StoreIndices(data)}
    /\ applied = <<>>
    /\ output = <<>>
    /\ rerun = "none"
    /\ first = [output |-> <<>>, deps |-> <<>>]
    /\ hexStr = <<>>
    /\ isMask = FALSE

SpecWide == InitWide /\ [][NextMerge]_vars

\* ------------------------------------------------------------------------
\* Every opcode: the analysis of the one-instruction sections made of any
\* opcode byte, with r1 as both registers or r2 and r1, and a zero offset
\* and immediate.
\* ------------------------------------------------------------------------
OpcodeSections ==
    {<<op, rb, 0, 0, 0, 0, 0, 0>> : op \in 0..255, rb \in {17, 18}}

InitOpcodes ==
    /\ data \in OpcodeSections
    /\ skipOptimization = TRUE
    /\ Unloaded

SpecOpcodes == InitOpcodes /\ [][NextLoops]_vars

\* ------------------------------------------------------------------------
\* Frame-pointer aliases: the analysis of sections that copy r10 into r1,
\* add an immediate to r1, call a helper, copy r1 into r2, shift r1, branch
\* and exit.
\* ------------------------------------------------------------------------
MovR1R10 == <<\Hbf, \Ha1, \H00, \H00, \H00, \H00, \H00, \H00>>
MovR2R1 == <<\Hbf, \H12, \H00, \H00, \H00, \H00, \H00, \H00>>
AddR1Imm8 == <<\H07, \H01, \H00, \H00, \H08, \H00, \H00, \H00>>

AliasPalette == {MovR1R10, MovR2R1, AddR1Imm8, CallHelper12, Lsh32, JneFwd, ExitInsn}

AliasSections ==
    {Flatten(p) : p \in UNION {[1..n -> AliasPalette] : n \in 1..MaxLen}}

InitAlias ==
    /\ data \in AliasSections
    /\ skipOptimization = TRUE
    /\ Unloaded

SpecAlias == InitAlias /\ [][NextLoops]_vars

\* ------------------------------------------------------------------------
\* Shift pairs: the pipeline on sections of shifts by 32 and by 16, of r1
\* and of r2, logical and arithmetic.
\* ------------------------------------------------------------------------
Lsh32R2 == <<\H67, \H02, \H00, \H00, \H20, \H00, \H00, \H00>>
Rsh32R2 == <<\H77, \H02, \H00, \H00, \H20, \H00, \H00, \H00>>
Rsh16 == <<\H77, \H01, \H00, \H00, \H10, \H00, \H00, \H00>>
Arsh32 == <<\Hc7, \H01, \H00, \H00, \H20, \H00, \H00, \H00>>

ShiftPalette == {Lsh32, Rsh32, Lsh32R2, Rsh32R2, Rsh16, Arsh32}

ShiftSections ==
    {Flatten(p) : p \in UNION {[1..n -> ShiftPalette] : n \in 1..MaxLen}}

InitShift ==
    /\ data \in ShiftSections
    /\ skipOptimization \in BOOLEAN
    /\ Unloaded

SpecShift == InitShift /\ [][Next]_vars

\* ------------------------------------------------------------------------
\* Mask folding: the pipeline on sections made of a MOV-immediate, a wide
\* load of the mask 0xffffffff into r0 or r3 and an AND by register, with
\* several register bytes, in both orders of the MOV and the load.
\* ------------------------------------------------------------------------
RegBytes == {1, 2, 33, 48}

MovWith(op, rb) == <<op, rb, 0, 0, 0, 0, 0, 0>>

MaskLoad(rb) == <<24, rb, 0, 0, 255, 255, 255, 255, 0, 0, 0, 0, 0, 0, 0, 0>>

AndWith(rb) == <<95, rb, 0, 0, 0, 0, 0, 0>>

PeepholeSections ==
    {MovWith(op, m) \o MaskLoad(l) \o AndWith(a) :
        op \in {180, 183}, m \in RegBytes, l \in {0, 3}, a \in RegBytes}
    \cup {MaskLoad(l) \o MovWith(180, m) \o AndWith(a) :
              m \in RegBytes, l \in {0, 3}, a \in RegBytes}

InitPeephole ==
    /\ data \in PeepholeSections
    /\ skipOptimization \in BOOLEAN
    /\ Unloaded

SpecPeephole == InitPeephole /\ [][Next]_vars

\* ------------------------------------------------------------------------
\* Properties
\* ------------------------------------------------------------------------
\* The eight bytes of instruction slot k (counted from 0) of a byte sequence.
SlotOf(bytes, k) == SubSeq(bytes, 8 * k + 1, 8 * k + 8)

SlotCount(bytes) == Len(bytes) \div 8

Loaded == pc \in {"cfg", "analyze", "cp", "compaction", "peephole", "superword",
                  "dump", "done", "panic"}

\* The dependency analysis has returned and no pass has run yet.
Analysed == pc = "cp" \/ (pc = "dump" /\ skipOptimization)

\* C1: for every accepted section, after any prefix of the four passes the
\* section holds as many instructions as the input, each of sixteen hex
\* digits, and the serialised output has the input's byte length; a slot of
\* the output that differs from the input holds the canonical no-op or one
\* rewritten instruction (an immediate store or a 32-bit register move),
\* so nothing is deleted or inserted.
C1_SizePreserved ==
    /\ Loaded =>
          /\ Len(Instructions) * 8 = Len(data)
          /\ \A k \in DOMAIN Instructions : Len(ToHex(Instructions[k])) = 16
    /\ pc = "done" =>
          /\ Len(output) = Len(data)
          /\ \A k \in 0..(SlotCount(data) - 1) :
                \/ SlotOf(output, k) = SlotOf(data, k)
                \/ SlotOf(output, k) = NopInsn
                \/ SlotOf(output, k)[1] % 8 = BPF_ST
                \/ SlotOf(output, k)[1] = 188

\* A run with the passes enabled that eliminated an instruction.
C1_Witness ==
    /\ pc = "done"
    /\ ~skipOptimization
    /\ \E k \in 0..(SlotCount(data) - 1) :
          SlotOf(output, k) = NopInsn /\ SlotOf(data, k) # NopInsn

\* C2: after the analysis, j is among the dependencies of i exactly when i is
\* among the instructions depending on j, for all instruction indices i and j;
\* the entry marker -1 thus adds nothing to any DependedBy list.
C2_Symmetric ==
    Analysed =>
        \A i, j \in 0..(Len(Dependencies) - 1) :
            Contains(Dependencies[i + 1].Dependencies, j)
                <=> Contains(Dependencies[j + 1].DependedBy, i)

\* C3: a second run over the same input bytes ends with the same output
\* bytes and, for every instruction, the same sets of dependencies and of
\* dependents as the first run (equal arrays have equal sets).
C3_Deterministic ==
    (rerun = "same" /\ pc = "done") =>
        /\ output = first.output
        /\ \A k \in DOMAIN Dependencies :
              /\ Range(Dependencies[k].Dependencies) = Range(first.deps[k].Dependencies)
              /\ Range(Dependencies[k].DependedBy) = Range(first.deps[k].DependedBy)

\* An instruction of the input whose class is a merge barrier.
BarrierInInput(j) == data[8 * j + 1] % 8 \in {BPF_LDX, BPF_JMP, BPF_JMP32}

\* C4: for every merge performed on store indices a < b, no instruction
\* strictly between a and b of the program before the merge has class LDX,
\* JMP or JMP32 (the canonical no-op 05.. is of class JMP); when nothing is
\* merged the instructions are left as they were.
C4_NoMergeAcrossBarrier ==
    /\ \A x \in DOMAIN applied :
          \A a, b \in Range(applied[x]) :
              a < b => \A j \in (a + 1)..(b - 1) : ~BarrierInInput(j)
    /\ (pc \in {"dump", "done"} /\ applied = <<>>) =>
          Instructions = parseInstructions(HexOfBytes(data))

\* A merge of two stores with another instruction between them.
C4_Witness ==
    /\ pc = "dump"
    /\ applied # <<>>
    /\ \E a, b \in Range(applied[1]) : a + 1 < b

\* C5: every store that constant propagation rewrites is a dependent of a
\* MOV-immediate and becomes an immediate store (class ST) that carries the
\* MOV's immediate and keeps the store's size bits, offset and destination
\* register.
C5_PropagationKeepsStore ==
    [][(pc = "cp" /\ pc' = "compaction") =>
          \A k \in DOMAIN Instructions :
              (Instructions'[k] # Instructions[k] /\ Instructions'[k].Raw # NOP) =>
                  \E i \in DOMAIN Instructions :
                      /\ Instructions[i].Opcode \in {183, 180}
                      /\ Contains(Dependencies[i].DependedBy, k - 1)
                      /\ GetInstructionClass(Instructions'[k]) = BPF_ST
                      /\ Instructions'[k].Imm = Instructions[i].Imm
                      /\ (Instructions'[k].Opcode \div 8) = (Instructions[k].Opcode \div 8)
                      /\ Instructions'[k].Offset = Instructions[k].Offset
                      /\ Instructions'[k].DstReg = Instructions[k].DstReg]_vars

\* Constant propagation has turned a register store of the input into an
\* immediate store.
C5_Witness ==
    /\ pc = "compaction"
    /\ \E k \in DOMAIN Instructions :
          /\ GetInstructionClass(Instructions[k]) = BPF_ST
          /\ data[8 * (k - 1) + 1] % 8 = BPF_STX

\* 0500000000000000 620110000a000000
MovThenStoreClaimed ==
    Flatten(<< NopInsn, <<\H62, \H01, \H10, \H00, \H0a, \H00, \H00, \H00>> >>)

\* 0500000000000000 6301100000000000
MovThenStoreActual ==
    Flatten(<< NopInsn, <<\H63, \H01, \H10, \H00, \H00, \H00, \H00, \H00>> >>)

PipelineDoneOn(section) == data = section /\ ~skipOptimization /\ pc = "done"

IsCallOfHelper(slot, id) ==
    /\ slot[1] = 133
    /\ slot[5] + 256 * slot[6] + 65536 * slot[7] + 16777216 * SignedByte(slot[8]) = id

\* A store through r10 (class ST or STX, destination nibble 10).
IsStackStore(slot) ==
    /\ slot[1] % 8 \in {BPF_ST, BPF_STX}
    /\ (slot[1] \div 32) * 32 \in {BPF_MEM, BPF_MEMSX, BPF_ATOMIC}
    /\ slot[2] % 16 = 10

\* C7: a call of helper 12 that follows a stack store S has S among its
\* dependencies and is among the dependents of S.
C7_TailCallReadsStack ==
    Analysed =>
        \A c, S \in 0..(Len(Dependencies) - 1) :
            (S < c /\ IsStackStore(SlotOf(data, S)) /\ IsCallOfHelper(SlotOf(data, c), 12)) =>
                /\ Contains(Dependencies[c + 1].Dependencies, S)
                /\ Contains(Dependencies[S + 1].DependedBy, c)

\* 0500000000000000 0500000000000000 bc11000000000000 7701000020000000
MaskAndShiftClaimed ==
    Flatten(<< NopInsn, NopInsn, <<\Hbc, \H11, \H00, \H00, \H00, \H00, \H00, \H00>>,
               Rsh32 >>)

\* C8 as stated: the pipeline turns instructions 0 and 1 of 18000000ffffffff
\* 0000000000000000 5701000000000000 7701000020000000 into the no-op and
\* instruction 2 into bc11000000000000, and leaves instruction 3.
C8_ClaimedOutput == PipelineDoneOn(MaskAndShift) => output = MaskAndShiftClaimed

\* C8, amended: the pipeline leaves all four instructions of 18000000ffffffff
\* 0000000000000000 5701000000000000 7701000020000000 unchanged (opcode 0x57
\* is not the AND the peephole looks for, and the AND of r1 does not depend
\* on the load into r0).
C8_ActualOutput == PipelineDoneOn(MaskAndShift) => output = MaskAndShift

C8_Witness == PipelineDoneOn(MaskAndShift) /\ Len(output) = 32

\* C9: a pipeline run over the output of a previous pipeline run leaves every
\* byte unchanged.
C9_Idempotent ==
    (rerun = "output" /\ pc = "done" /\ ~skipOptimization) => output = data

\* The values whose binary form is one or more 1s followed by zero or more 0s.
IsOnesThenZeros(v) ==
    \E k \in 1..(4 * MaxHexLen) :
        \E m \in 0..(4 * MaxHexLen - k) : v = (Pow2(k) - 1) * Pow2(m)

\* C10: the recognizer answers true exactly for the values whose binary form,
\* leading zeros trimmed, is one or more 1s followed by zero or more 0s; zero
\* and every value with a 1 after a 0 are rejected.
C10_MaskPattern ==
    pc = "masked" => (isMask <=> IsOnesThenZeros(HexValue(hexStr, 0, Len(hexStr))))

\* 0f8 = 11111000 behind four leading zeros.
C10_Witness == pc = "masked" /\ isMask /\ hexStr = <<0, 15, 8>>

\* The input of NewSection is malformed: its length is no multiple of 16 or
\* it holds a character that is no hexadecimal digit.
Malformed(h) == Len(h) % 16 # 0 \/ ~IsHex(h)

\* C11: a section whose hex length is no multiple of 16, or one of whose
\* slots fails hex decoding, is rejected before any analysis or rewriting:
\* no instruction list, no dependency array, no control-flow graph and no
\* output bytes ever exist for it.
C11_RejectedBeforeAnalysis ==
    Malformed(hexStr) =>
        /\ pc \in {"loadhex", "rejected"}
        /\ Instructions = <<>>
        /\ Dependencies = <<>>
        /\ cfg = EmptyCfg
        /\ nodesDone = {}
        /\ output = <<>>

\* A two-slot input of the right length rejected for a character of its
\* second slot.
C11_Witness ==
    /\ pc = "rejected"
    /\ Len(hexStr) = 32
    /\ IsHex(Slice(hexStr, 0, 16))
    /\ ~IsHex(Slice(hexStr, 16, 32))

\* C12: decoding an 8-byte instruction and emitting it again yields the
\* same eight bytes, whatever the bytes are.
C12_RoundTrip == pc = "done" => output = data

\* An instruction whose decoded offset and immediate are negative and whose
\* fields hold differing bytes has been emitted again.
C12_Witness ==
    /\ pc = "done"
    /\ Len(output) = 8
    /\ Instructions[1].Offset < 0
    /\ Instructions[1].Imm < 0
    /\ data[3] # data[4]
    /\ data[5] # data[8]

\* The instructions control can pass to from instruction i: the jump target
\* i + off + 1 and the fall-through, inside the section.
InstrSucc(insts, i) ==
    LET inst == insts[i + 1]
        msb == (inst.Opcode \div 16) * 16
        all == IF ~IsJumpClass(inst) \/ msb = JMP_CALL THEN {i + 1}
               ELSE IF msb = JMP_EXIT THEN {}
               ELSE IF inst.Opcode = 5 THEN {i + inst.Offset + 1}
               ELSE {i + inst.Offset + 1, i + 1}
    IN  all \cap (0..(Len(insts) - 1))

\* Instruction j overwrites register r: it is the register it updates, or
\* the instruction is a call and r is one of r1..r5.
KillsReg(insts, j, r) ==
    LET inst == insts[j + 1]
    IN  /\ inst.Opcode # 0
        /\ \/ analyzeInstruction(inst).UpdatedReg = r
           \/ /\ IsJumpClass(inst)
              /\ (inst.Opcode \div 16) * 16 = JMP_CALL
              /\ r \in 1..5

WritesReg(insts, j, r) ==
    insts[j + 1].Opcode # 0 /\ analyzeInstruction(insts[j + 1]).UpdatedReg = r

WritesSlot(insts, j, off) ==
    LET a == analyzeInstruction(insts[j + 1])
    IN  insts[j + 1].Opcode # 0 /\ Len(a.UpdatedStack) >= 2 /\ a.UpdatedStack[1] = off

ReadsReg(insts, i, r) ==
    insts[i + 1].Opcode # 0 /\ Contains(analyzeInstruction(insts[i + 1]).UsedReg, r)

ReadsSlot(insts, i, off) ==
    LET a == analyzeInstruction(insts[i + 1])
    IN  insts[i + 1].Opcode # 0 /\ Len(a.UsedStack) >= 2 /\ a.UsedStack[1] = off /\ off # 0

\* The instructions reached from the set `from` along paths none of whose
\* inner instructions is in `kills`.
RECURSIVE ReachedFrom(_, _, _)
ReachedFrom(insts, from, kills) ==
    LET more == from \cup UNION {InstrSucc(insts, n) : n \in from \ kills}
    IN  IF more = from THEN from ELSE ReachedFrom(insts, more, kills)

ReachableInstrs(insts) == ReachedFrom(insts, {0}, {})

\* The value instruction j leaves in register r reaches instruction i.
RegReaches(insts, j, i, r) ==
    i \in ReachedFrom(insts, InstrSucc(insts, j),
                      {k \in 0..(Len(insts) - 1) : KillsReg(insts, k, r)})

SlotReaches(insts, j, i, off) ==
    i \in ReachedFrom(insts, InstrSucc(insts, j),
                      {k \in 0..(Len(insts) - 1) : WritesSlot(insts, k, off)})

StackOffsets(insts) ==
    {analyzeInstruction(insts[k]).UpdatedStack[1] :
        k \in {x \in DOMAIN insts : Len(analyzeInstruction(insts[x]).UpdatedStack) >= 2}}

\* C13: after the analysis, for every reachable instruction i and every
\* register or stack slot it reads, every reachable instruction j that
\* writes it and reaches i along a path with no write to it in between,
\* loop back-edges included, is among the dependencies of i.
C13_DependenciesComplete ==
    Analysed =>
        \A i, j \in ReachableInstrs(Instructions) :
            /\ \A r \in Regs :
                  (/\ ReadsReg(Instructions, i, r)
                   /\ WritesReg(Instructions, j, r)
                   /\ RegReaches(Instructions, j, i, r))
                      => Contains(Dependencies[i + 1].Dependencies, j)
            /\ \A off \in StackOffsets(Instructions) :
                  (/\ ReadsSlot(Instructions, i, off)
                   /\ WritesSlot(Instructions, j, off)
                   /\ SlotReaches(Instructions, j, i, off))
                      => Contains(Dependencies[i + 1].Dependencies, j)

OnCycle(insts, i) == i \in ReachedFrom(insts, InstrSucc(insts, i), {})

ProcessedInstrs ==
    UNION {{b + k : k \in 0..(cfg.NodesLen[b] - 1)} :
              b \in Range(visits) \cap DOMAIN cfg.NodesLen}

\* C15: when the traversal has returned, every instruction reachable from
\* instruction 0 lies in a block that a non-simulation pass processed, the
\* blocks with an EXIT, the blocks of loops headed by block 0 and the blocks
\* that are their own successor included.
C15_AllReachableProcessed ==
    Analysed => ReachableInstrs(Instructions) \subseteq ProcessedInstrs

\* Two register states differ in some register set or some stack-slot set,
\* the lists compared as unordered sets.
StatesDiffer(a, b) ==
    \/ \E r \in Regs : Range(a.Registers[r]) # Range(b.Registers[r])
    \/ DOMAIN a.Stacks # DOMAIN b.Stacks
    \/ \E off \in DOMAIN a.Stacks \cap DOMAIN b.Stacks :
          Range(a.Stacks[off]) # Range(b.Stacks[off])

\* C16: in every loop check, the loop is declared converged exactly when the
\* simulated state at the loop header equals, set by set, the state the
\* preceding real sweep stored for the header; when they differ the header
\* is traversed again.
C16_ConvergedOnlyWhenEqual ==
    \A k \in DOMAIN convergence :
        convergence[k].stored # <<>> =>
            (convergence[k].continueLoop
                <=> StatesDiffer(convergence[k].stored[1], convergence[k].simulated))

\* The blocks not yet done all of whose predecessors are done.
ReadyBlocks ==
    {n \in DOMAIN cfg.NodesRev :
        n \notin nodesDone /\ Range(cfg.NodesRev[n]) \subseteq nodesDone}

\* The ready blocks findNextNode considers: while a loop is active, the
\* blocks that hold an EXIT are passed over.
EligibleBlocks ==
    {n \in ReadyBlocks : ~(loops # <<>> /\ blockHasExit(Instructions, cfg, n))}

Smallest(S) == CHOOSE x \in S : \A y \in S : x <= y

Largest(S) == CHOOSE x \in S : \A y \in S : x >= y

\* The invocation about to run was entered by way of findNextNode: it is not
\* the first one and its state is not the one handed on by a loop check.
EnteredByFindNext == pc = "analyze" /\ visits # <<>> /\ aliasKey = {}

\* C17 as stated: the block the traversal goes on with is the smallest ready
\* block.
C17_FirstReady ==
    (EnteredByFindNext /\ EligibleBlocks \ {0} # {}) => base = Smallest(EligibleBlocks \ {0})

\* C17, amended: the block the traversal goes on with is the largest ready
\* block (the scan over the ascending ids does not stop at the first hit);
\* while a loop is active, blocks holding an EXIT are passed over, and
\* block 0 as the only ready block counts as none.
C17_LastReady ==
    (EnteredByFindNext /\ EligibleBlocks \ {0} # {}) => base = Largest(EligibleBlocks)

\* Two blocks were ready and the traversal went on with the larger one.
C17_Witness ==
    /\ EnteredByFindNext
    /\ Cardinality(EligibleBlocks \ {0}) >= 2
    /\ base = Largest(EligibleBlocks)

IsCall(inst) == IsJumpClass(inst) /\ (inst.Opcode \div 16) * 16 = JMP_CALL /\ inst.Opcode # 5

\* The index of the last instruction of block b.
LastOf(b) == b + cfg.NodesLen[b] - 1

\* C18: the state recorded at the end of a block whose last instruction is
\* a CALL, of whatever helper, has regs[1] to regs[5] empty and regs[0]
\* holding the index of the call and nothing else.
C18_CallClearsCallerSaved ==
    \A b \in DOMAIN cfg.NodeStats :
        (/\ b \in DOMAIN cfg.NodesLen
         /\ cfg.NodesLen[b] >= 1
         /\ LastOf(b) < Len(Instructions)
         /\ IsCall(Instructions[LastOf(b) + 1]))
            => /\ \A r \in 1..5 : cfg.NodeStats[b].Registers[r] = <<>>
               /\ cfg.NodeStats[b].Registers[0] = <<LastOf(b)>>

\* The block ids of the finished graph: the keys of either map and the ids
\* found in either map's lists.
GraphIds ==
    DOMAIN cfg.Nodes \cup DOMAIN cfg.NodesRev
        \cup UNION {Range(cfg.Nodes[u]) : u \in DOMAIN cfg.Nodes}
        \cup UNION {Range(cfg.NodesRev[v]) : v \in DOMAIN cfg.NodesRev}

HasSucc(u, v) == u \in DOMAIN cfg.Nodes /\ Contains(cfg.Nodes[u], v)

HasPred(v, u) == v \in DOMAIN cfg.NodesRev /\ Contains(cfg.NodesRev[v], u)

\* C19: in the finished control-flow graph, v is a successor of u exactly
\* when u is a predecessor of v, for every pair of blocks u and v.
C19_SuccPredSymmetric ==
    \A u, v \in GraphIds : HasSucc(u, v) <=> HasPred(v, u)

\* The branch (not a call, not an exit) that is the last instruction of
\* block b, and its computed target.
EndsAtBranch(b) ==
    /\ b \in DOMAIN cfg.NodesLen
    /\ cfg.NodesLen[b] >= 1
    /\ LastOf(b) < Len(Instructions)
    /\ IsJumpClass(Instructions[LastOf(b) + 1])
    /\ (Instructions[LastOf(b) + 1].Opcode \div 16) * 16 \notin {JMP_CALL, JMP_EXIT}

TargetOf(b) == LastOf(b) + Instructions[LastOf(b) + 1].Offset + 1

ReadsValue(insts, i, r) ==
    LET inst == insts[i + 1]
    IN  /\ inst.Raw # NOP
        /\ \/ Contains(analyzeInstruction(inst).UsedReg, r)
           \/ GetInstructionClass(inst) \in {BPF_ST, BPF_STX} /\ inst.DstReg = r
           \/ GetInstructionClass(inst) = BPF_LDX /\ inst.SrcReg = r

\* The instructions of the input as decoded.
InputInstructions == parseInstructions(HexOfBytes(data))

\* C21: right after constant propagation, a MOV-immediate of the input that
\* the pass turned into the no-op has no reader left: no remaining
\* instruction reads the MOV's destination register on a path from the MOV
\* on which the register is not written in between.
C21_RemovedMovHasNoReader ==
    pc = "compaction" =>
        \A i \in 0..(Len(Instructions) - 1) :
            (/\ InputInstructions[i + 1].Opcode \in {183, 180}
             /\ Instructions[i + 1].Raw = NOP)
                => ~\E j \in 0..(Len(Instructions) - 1) :
                       /\ ReadsValue(Instructions, j, InputInstructions[i + 1].DstReg)
                       /\ RegReaches(InputInstructions, i, j,
                                     InputInstructions[i + 1].DstReg)

\* The bytes of memory a store instruction writes: offset .. offset + size - 1.
WrittenBytes(inst) == {inst.Offset + b : b \in 0..(getMemorySize(inst) - 1)}

\* The superword pass of the pipeline changed instruction k (1-based) only
\* by turning an immediate store into the no-op, and the instruction at the
\* merge position before it is, after the pass, a store through the same
\* base register that writes all the bytes the removed store wrote.
CoveredByMerge(before, after, k) ==
    /\ GetInstructionClass(before[k]) = BPF_ST
    /\ after[k].Raw = NOP
    /\ k > 1
    /\ GetInstructionClass(after[k - 1]) = BPF_ST
    /\ after[k - 1].DstReg = before[k].DstReg
    /\ WrittenBytes(before[k]) \subseteq WrittenBytes(after[k - 1])

\* C22: every instruction the fourth pass of the pipeline changes is an
\* immediate store turned into the no-op and covered by the wider store at
\* the merge position; instructions of class LD, LDX and STX stay as they are.
C22_MergeOnlyCoveredStores ==
    [][(pc = "superword" /\ pc' = "dump") =>
          \A k \in DOMAIN Instructions :
              Instructions'[k] # Instructions[k]
                  => CoveredByMerge(Instructions, Instructions', k)]_vars

\* The little-endian value of the immediate field of slot k of the input.
ImmLE(k) ==
    LET bs == SlotOf(data, k)
    IN  bs[5] + 256 * bs[6] + 65536 * bs[7] + 16777216 * bs[8]

\* Slots k and k + 1 of the input are LSH-immediate and RSH-immediate by 32
\* of one destination register.
ShiftPair(k) ==
    /\ k >= 0
    /\ k + 1 < SlotCount(data)
    /\ SlotOf(data, k)[1] = 103
    /\ SlotOf(data, k + 1)[1] = 119
    /\ ImmLE(k) = 32
    /\ ImmLE(k + 1) = 32
    /\ SlotOf(data, k)[2] % 16 = SlotOf(data, k + 1)[2] % 16

ThreeWay(m, d, p) ==
    /\ pc = "superword"
    /\ m # p
    /\ InputInstructions[d + 1].Opcode = ALU_AND_K
    /\ Instructions[d + 1] # InputInstructions[d + 1]
    /\ Len(Dependencies[d + 1].Dependencies) = 2
    /\ Range(Dependencies[d + 1].Dependencies) = {m, p}
    /\ InputInstructions[m + 1].Opcode = BPF_LDDW
    /\ InputInstructions[p + 1].Opcode = ALU_MOV_K
    /\ Instructions[p + 1].Raw = NOP

InstrIndices == 0..(Len(Instructions) - 1)

\* C24: in a three-way rewrite the AND becomes bcDS000000000000 with D the
\* AND's own destination nibble and S the MOV's source nibble, and the mask,
\* its second slot and the MOV are the no-op.
C24_DstOfAndSrcOfMov ==
    \A m, d, p \in InstrIndices :
        ThreeWay(m, d, p) =>
            /\ Instructions[d + 1].Raw =
                   Mov32Hex(Slice(InputInstructions[d + 1].Raw, 3, 4),
                            Slice(InputInstructions[p + 1].Raw, 2, 3))
            /\ Instructions[m + 1].Raw = NOP
            /\ Instructions[m + 2].Raw = NOP
            /\ Instructions[p + 1].Raw = NOP

\* C24 as the code has it: both register nibbles of the new instruction are
\* the MOV's, in the MOV's order.
C24_BothNibblesOfMov ==
    \A m, d, p \in InstrIndices :
        ThreeWay(m, d, p) =>
            /\ Instructions[d + 1].Raw =
                   Mov32Hex(Slice(InputInstructions[p + 1].Raw, 2, 3),
                            Slice(InputInstructions[p + 1].Raw, 3, 4))
            /\ Instructions[m + 1].Raw = NOP
            /\ Instructions[m + 2].Raw = NOP
            /\ Instructions[p + 1].Raw = NOP

\* A three-way rewrite in which the MOV's register byte has two different
\* nibbles, none of them the AND's destination nibble.
C24_Witness ==
    \E m, d, p \in InstrIndices :
        /\ ThreeWay(m, d, p)
        /\ InputInstructions[p + 1].SrcReg # InputInstructions[p + 1].DstReg
        /\ InputInstructions[p + 1].SrcReg # InputInstructions[d + 1].DstReg

\* The immediate digits applyMerges takes from the constituent stores of a
\* merged candidate, concatenated in the candidate's order.
JoinedImm(candidate) ==
    Flatten([x \in DOMAIN candidate |->
                Slice(InputInstructions[candidate[x] + 1].Raw, 8,
                      8 + getSize(InputInstructions[candidate[1] + 1]) \div 4)])

\* C25: no applied merge left out a non-zero digit: when the concatenated
\* immediate of a merge is longer than eight hex digits, the digits beyond
\* the eighth are all zero.
C25_NoNonZeroDigitDropped ==
    pc \in {"dump", "done"} =>
        \A x \in DOMAIN applied :
            \A k \in DOMAIN JoinedImm(applied[x]) :
                k > 8 => JoinedImm(applied[x])[k] = 0

\* The constituent stores of a merged candidate in ascending order of their
\* offsets in the input (the offsets of one merge are all different).
ByOffset(candidate) ==
    [k \in 1..Len(candidate) |->
        CHOOSE i \in Range(candidate) :
            Cardinality({j \in Range(candidate) :
                            InputInstructions[j + 1].Offset
                                < InputInstructions[i + 1].Offset}) = k - 1]

\* C26: the store a merge installs has the lowest offset of the merged
\* stores, and its immediate is their immediates concatenated in ascending
\* order of offset (padded with zeros), whatever the order of the stores in
\* the program.  Merges whose concatenation exceeds eight digits are left
\* to C25.
C26_MergedInOffsetOrder ==
    pc \in {"dump", "done"} =>
        \A x \in DOMAIN applied :
            LET c == applied[x]
                joined == JoinedImm(ByOffset(c))
                merged == Instructions[c[1] + 1]
            IN  Len(joined) <= 8 =>
                    /\ merged.Offset = InputInstructions[ByOffset(c)[1] + 1].Offset
                    /\ Slice(merged.Raw, 8, 16)
                           = joined \o [k \in 1..(8 - Len(joined)) |-> 0]

\* The operation field (class ALU, ALU64, JMP, JMP32) or the mode field
\* (class LD, LDX, ST, STX) of the opcode is none of those package bpf
\* defines: the operations run from 0x00 to 0xd0, the modes are IMM, ABS,
\* IND, MEM, MEMSX and ATOMIC.
UnknownOpcode(inst) ==
    IF GetInstructionClass(inst) \in {BPF_ALU, BPF_ALU64, BPF_JMP, BPF_JMP32}
    THEN (inst.Opcode \div 16) * 16 \in {224, 240}
    ELSE (inst.Opcode \div 32) * 32
             \notin {BPF_IMM, BPF_ABS, BPF_IND, BPF_MEM, BPF_MEMSX, BPF_ATOMIC}

\* C27: an instruction of unknown opcode has the empty effect record (no
\* register read or written, no stack slot read or written), and the
\* analysis leaves it without dependencies.
C27_UnknownOpcodeHasNoEffect ==
    Analysed =>
        \A k \in DOMAIN Instructions :
            UnknownOpcode(Instructions[k]) =>
                LET a == analyzeInstruction(Instructions[k])
                IN  /\ a.UpdatedReg = -1
                    /\ a.UsedReg = <<>>
                    /\ a.UpdatedStack = <<>>
                    /\ a.UsedStack = <<>>
                    /\ Dependencies[k].Dependencies = <<>>

\* C28: every decoded instruction has the offset that bytes 2-3 of its slot
\* spell as a signed 16-bit little-endian number and the immediate that
\* bytes 4-7 spell as a signed 32-bit little-endian number.
C28_LittleEndianFields ==
    pc \in {"cfg", "done"} =>
        \A k \in DOMAIN Instructions :
            LET bs == SlotOf(data, k - 1)
            IN  /\ Instructions[k].Offset = bs[3] + 256 * SignedByte(bs[4])
                /\ Instructions[k].Imm =
                       bs[5] + 256 * bs[6] + 65536 * bs[7]
                           + 16777216 * SignedByte(bs[8])

\* C29: the simulation pass of a loop check leaves the sets of dependencies
\* and of dependents of every instruction as they were before the pass.
C29_SimulationKeepsDependencies ==
    convergence # <<>> =>
        \A k \in DOMAIN convergence[1].depsBefore :
            /\ Range(convergence[1].depsAfter[k].Dependencies)
                   = Range(convergence[1].depsBefore[k].Dependencies)
            /\ Range(convergence[1].depsAfter[k].DependedBy)
                   = Range(convergence[1].depsBefore[k].DependedBy)

\* What the registers hold in terms of the frame pointer: <<k>> when the
\* register holds r10 + k, <<>> when it holds anything else.
AtEntry == [r \in Regs |-> IF r = 10 THEN <<0>> ELSE <<>>]

\* The immediate of an instruction, its bytes 4-7 read least significant
\* byte first.
ImmOf(inst) ==
    HexValue(inst.Raw, 8, 10) + 256 * HexValue(inst.Raw, 10, 12)
        + 65536 * HexValue(inst.Raw, 12, 14)
        + 16777216 * SignedByte(HexValue(inst.Raw, 14, 16))

\* The effect of executing inst: a 64-bit register move copies, a 64-bit
\* add of an immediate adds, a call overwrites r0 to r5, any other
\* instruction that writes a register (classes ALU, ALU64, LDX, LD) leaves
\* something else in its destination.
Executed(inst, vals) ==
    IF inst.Opcode = 191 THEN [vals EXCEPT ![inst.DstReg] = vals[inst.SrcReg]]
    ELSE IF inst.Opcode = 7
    THEN [vals EXCEPT ![inst.DstReg] =
             IF @ = <<>> THEN <<>> ELSE <<@[1] + ImmOf(inst)>>]
    ELSE IF IsCall(inst) THEN [r \in Regs |-> IF r <= 5 THEN <<>> ELSE vals[r]]
    ELSE IF GetInstructionClass(inst) \in {BPF_ALU, BPF_ALU64, BPF_LDX, BPF_LD}
    THEN [vals EXCEPT ![inst.DstReg] = <<>>]
    ELSE vals

\* The registers after the instructions path[1], ..., path[n - 1].
RECURSIVE AlongPath(_, _, _, _)
AlongPath(insts, path, j, vals) ==
    IF j >= Len(path) THEN vals
    ELSE AlongPath(insts, path, j + 1, Executed(insts[path[j] + 1], vals))

PathBound == 5

\* The execution paths of at most PathBound instructions from instruction
\* 0 to the entry of instruction i.
PathsTo(insts, i) ==
    {p \in UNION {[1..n -> 0..(Len(insts) - 1)] : n \in 1..PathBound} :
        /\ p[1] = 0
        /\ p[Len(p)] = i
        /\ \A j \in 1..(Len(p) - 1) : p[j + 1] \in InstrSucc(insts, p[j])}

\* C30: when the engine enters a block with reg_alias[r] = k, register r
\* holds r10 + k at the block's first instruction on every execution path
\* that reaches it.
C30_AliasIsFrameOffset ==
    (pc = "analyze" /\ base \in 0..(Len(Instructions) - 1)) =>
        \A r \in 0..9 :
            state.RegAlias[r] # -1 =>
                \A p \in PathsTo(Instructions, base) :
                    AlongPath(Instructions, p, 1, AtEntry)[r] = <<state.RegAlias[r]>>

====
